---- MODULE Spec2Model ----
(***************************************************************************)
(* Verification model of rpi-paper-eta's transit normalization layer       *)
(* (src/paper_eta/src/libs/hketa): the on-disk route catalog cache of      *)
(* Transport, the construction of a Route, and the per-provider ETA        *)
(* processors; and of the application around it: the refresher, the        *)
(* refresh log and the schedules.                                          *)
(*                                                                         *)
(* The specifications share the module's variables:                        *)
(*   Spec     one Transport instance at a time working on the cache files  *)
(*            of one provider (route_list, stop_list, Route.__init__).     *)
(*   SpecEta  an EtaProcessor of a Route of the cached catalog, whose      *)
(*            etas() is applied to an upstream live response drawn from a  *)
(*            bounded set.                                                 *)
(*   SpecRefresh  refresh rounds of the refresher over the same cache.     *)
(*   SpecRace     two callers of stop_list on one stop file, step by step. *)
(*   SpecNlb      NewLantaoBus._fetch_route_list applied to a route list   *)
(*                response drawn from a bounded set.                       *)
(*   SpecDisplay  two threads running refresh and clear_screen over the    *)
(*                controller lock, the panel and the screen dump directory.*)
(*   SpecLogs     _write_log on the refresh_logs table and its purge.      *)
(*   SpecSchedules  the schedules table and the jobs of the scheduler.     *)
(*   SpecTracker  the partial tracker of the scheduled refreshes.          *)
(***************************************************************************)
EXTENDS Integers, Sequences, FiniteSets, TLC

VARIABLES
    company,      \* Transport.transport of the instance under test
    now,          \* datetime.now(), in ticks (TicksPerDay ticks are one day)
    routes_file,  \* <root>/<prefix>/routes.json
    stops_files,  \* <root>/<prefix>/routes/<fname>.json, by file name
    routes_mem,   \* Transport._routes of the live instance
    calls,        \* number of calls made so far (bounded by MaxCalls)
    last,         \* what the latest call did
    entry,        \* Route.entry of the processor: the RouteQuery (SpecEta)
    response,     \* the live response upstream gives the processor (SpecEta)
    eta,          \* what the latest EtaProcessor.etas() call did (SpecEta)
    logs,         \* the refresh_logs table: the RefreshLog rows (SpecRefresh)
    screens,      \* the images kept in the screen dump directory (SpecRefresh)
    round,        \* what the latest refresh() call did (SpecRefresh)
    disk,         \* the text of the one stop file two callers work on (SpecRace)
    procs,        \* where each of the two callers is in stop_list (SpecRace)
    order,        \* the callers in the order they finished writing (SpecRace)
    nlb_routes,   \* the routes NLB's route list request answers with (SpecNlb)
    built,        \* what NewLantaoBus._fetch_route_list made of them (SpecNlb)
    ctrl_mutex,   \* refresher._ctrl_mutex: 0, or the thread holding it (SpecDisplay)
    threads,      \* where each thread is in refresh or clear_screen (SpecDisplay)
    panel,        \* what the e-paper panel shows (SpecDisplay)
    schedules,    \* the schedules table, by id (SpecSchedules)
    jobs,         \* the jobs of exts.scheduler, by job id (SpecSchedules)
    log,          \* the log of partial_tracker: id and count (SpecTracker)
    yields        \* what the calls of the tracker returned so far (SpecTracker)

\* the variables of the refresher
refresher_vars == <<logs, screens, round>>

\* the variables of the concurrent callers
race_vars == <<disk, procs, order>>

\* the variables of the NLB catalog
nlb_vars == <<nlb_routes, built>>

\* the variables of the threads that drive the display
display_vars == <<ctrl_mutex, threads, panel>>

\* the variables of the application around the refresher
\* the variables of the partial tracker
tracker_vars == <<log, yields>>

app_vars == <<display_vars, schedules, jobs, tracker_vars>>

\* the variables outside the transit layer
outside == <<refresher_vars, race_vars, nlb_vars, app_vars>>

vars == <<company, now, routes_file, stops_files, routes_mem, calls, last,
          entry, response, eta, outside>>

----------------------------------------------------------------------------
(* Bounds of the model *)

\* ticks of the clock per day: the clock is finer than the whole days of
\* timedelta.days
TicksPerDay == 2

\* Transport.threshold, in days (configurable; HKETA_THRESHOLD)
threshold == 0

\* calls made in one behaviour
MaxCalls == 2

\* the clock stops here: far enough for a record to become outdated
MaxNow == 2

----------------------------------------------------------------------------
(* enums.py *)

Company == {"kmb", "mtr_bus", "mtr_lrt", "mtr_train", "ctb", "nlb"}

Direction == {"outbound", "inbound"}

Locale == {"tc", "en"}

----------------------------------------------------------------------------
(* The upstream catalog data the model draws from *)

\* the service type every route of the provider has
NormalType(c) == IF c \in {"kmb", "nlb"} THEN "1" ELSE "default"

\* service types a caller may ask for; "DEFAULT" differs from "default"
\* only by case
ServiceTypes(c) == IF c \in {"kmb", "nlb"} THEN {"1", "2"} ELSE {"default", "DEFAULT"}

\* route numbers a caller may ask for; "R1-B" is a heavy-rail branch route
RouteNos(c) == IF c = "mtr_train" THEN {"R1", "R1-B", "R2"} ELSE {"R1", "R2"}

\* the queries of the model, as <<route number, direction, service type>>:
\* a normal one, one with another service type, two on a route that only
\* the larger catalog lists and that runs outbound only, and for heavy rail
\* one on a branch route
Queries(c) ==
    {<<"R1", "outbound", NormalType(c)>>,
     <<"R1", "outbound", CHOOSE st \in ServiceTypes(c) : st # NormalType(c)>>,
     <<"R2", "outbound", NormalType(c)>>,
     <<"R2", "inbound", NormalType(c)>>}
    \cup (IF c = "mtr_train" THEN {<<"R1-B", "outbound", "default">>} ELSE {})

\* the stop ids a RouteQuery may name
StopIds == {"s1", "s3"}

Bound(no, d, st) == [service_type |-> st, route_id |-> <<no, d, st>>]

\* RouteInfo of a route with one service each way
BothWays(c, no) ==
    [outbound |-> <<Bound(no, "outbound", NormalType(c))>>,
     inbound  |-> <<Bound(no, "inbound", NormalType(c))>>]

\* RouteInfo of a route that only runs outbound
OneWay(c, no) ==
    [outbound |-> <<Bound(no, "outbound", NormalType(c))>>,
     inbound  |-> <<>>]

\* the route lists _fetch_route_list may build from what upstream serves
Catalogs(c) ==
    IF c = "mtr_train"
    THEN { [no \in {"R1", "R1-B"} |-> BothWays(c, no)],
           [no \in {"R1", "R1-B", "R2"} |-> IF no = "R2" THEN OneWay(c, no) ELSE BothWays(c, no)] }
    ELSE { [no \in {"R1"} |-> BothWays(c, no)],
           [no \in {"R1", "R2"} |-> IF no = "R2" THEN OneWay(c, no) ELSE BothWays(c, no)] }

EmptyCatalog == [no \in {} |-> <<>>]

\* the provider's own code of a direction (the inverse of its _bound_map)
Code(c, d) ==
    CASE c = "mtr_bus"   -> (IF d = "outbound" THEN "O" ELSE "I")
      [] c = "mtr_lrt"   -> (IF d = "outbound" THEN "1" ELSE "2")
      [] c = "mtr_train" -> (IF d = "outbound" THEN "UT" ELSE "DT")
      [] OTHER           -> d

\* one row of the upstream stop enumeration: a CSV row of the MTR files, an
\* entry of a route-stop response for the others.  route_id is the key of
\* NLB's stop.php?action=list&routeId=
Row(c, no, d, st, id, seq) ==
    [route |-> no, code |-> Code(c, d), service_type |-> st,
     route_id |-> <<no, d, st>>, id |-> id, seq |-> seq]

\* a heavy-rail row of branch "B" of line R1: its direction column is "B-DT"
\* or "B-UT"
BranchRow(d, id, seq) ==
    [route |-> "R1", code |-> (IF d = "outbound" THEN "B-UT" ELSE "B-DT"),
     service_type |-> "default", route_id |-> <<"R1-B", d, "default">>,
     id |-> id, seq |-> seq]

WorldA(c) ==
    <<Row(c, "R1", "outbound", NormalType(c), "s1", 1),
      Row(c, "R1", "outbound", NormalType(c), "s2", 2),
      Row(c, "R1", "outbound", NormalType(c), "s3", 3),
      Row(c, "R1", "inbound", NormalType(c), "s3", 1),
      Row(c, "R1", "inbound", NormalType(c), "s1", 2)>>
    \o (IF c = "mtr_train"
        THEN <<BranchRow("outbound", "s1", 1), BranchRow("outbound", "s4", 2),
               BranchRow("inbound", "s4", 1), BranchRow("inbound", "s1", 2)>>
        ELSE <<>>)

\* R1 lost a stop, R2 is a circular route calling at s1 twice, and nothing
\* is listed for R2 inbound
WorldB(c) ==
    <<Row(c, "R1", "outbound", NormalType(c), "s1", 1),
      Row(c, "R1", "outbound", NormalType(c), "s2", 2),
      Row(c, "R1", "inbound", NormalType(c), "s2", 1),
      Row(c, "R1", "inbound", NormalType(c), "s1", 2),
      Row(c, "R2", "outbound", NormalType(c), "s1", 1),
      Row(c, "R2", "outbound", NormalType(c), "s2", 2),
      Row(c, "R2", "outbound", NormalType(c), "s1", 3)>>

Worlds(c) == {WorldA(c), WorldB(c)}

\* what upstream does during one call: each of the two fetches either fails
\* (aiohttp.ClientError) or serves one of the data sets
Upstreams(c) ==
    [routes_ok : BOOLEAN, catalog : Catalogs(c),
     stops_ok : BOOLEAN, world : Worlds(c)]

----------------------------------------------------------------------------
(* transport.py: the cache files *)

\* str.upper() of a route number: every route number of the model is
\* already in upper case
upper(s) == s

\* str.lower() of a service type
lower(s) == IF s = "DEFAULT" THEN "default" ELSE s

\* stop_list_fname: the file name of a stop list
stop_list_fname(no, direction, service_type) ==
    <<upper(no), lower(direction), lower(service_type)>>

FNames(c) == {stop_list_fname(q[1], q[2], q[3]) : q \in Queries(c)}

\* no routes.json / Transport._routes is None
NoRoutes == [exists |-> FALSE, last_update |-> 0, data |-> EmptyCatalog]

\* no stop list file
NoStops == [exists |-> FALSE, last_update |-> 0, data |-> <<>>]

\* _append_timestamp: the record wrapper, stamped with datetime.now()
append_timestamp(data, t) == [exists |-> TRUE, last_update |-> t, data |-> data]

\* timedelta.days: the whole days of a time difference
days(delta) == delta \div TicksPerDay

\* a wrong _is_outdated: compares the exact age with the threshold
is_outdated_exact_age(target, t) ==
    IF ~target.exists
    THEN TRUE
    ELSE (t - target.last_update) > threshold * TicksPerDay

\* Transport._is_outdated: a missing file is outdated; a record is outdated
\* when the whole days since last_update exceed the threshold
is_outdated(target, t) ==
    IF ~target.exists
    THEN TRUE
    ELSE days(t - target.last_update) > threshold

\* route_list, lines 115-117 and 123-125: fetch the route list, stamp it,
\* memoize it and write it to routes.json; a failed fetch raises before
\* anything is assigned
refresh_routes(old, file, t, up, n) ==
    IF up.routes_ok
    THEN LET rec == append_timestamp(up.catalog, t)
         IN [mem |-> rec, file |-> rec, exc |-> "none", fetches |-> n + 1, failed |-> FALSE]
    ELSE [mem |-> old, file |-> file, exc |-> "ClientError", fetches |-> n + 1, failed |-> TRUE]

\* a wrong route_list: keeps no copy in memory, loads routes.json on every
\* call
route_list_no_memo(mem, file, t, up) ==
    LET loaded ==
            IF file.exists
            THEN [mem |-> file, file |-> file, exc |-> "none", fetches |-> 0, failed |-> FALSE]
            ELSE refresh_routes(mem, file, t, up, 0)
        checked ==
            IF loaded.exc = "none" /\ is_outdated(loaded.mem, t)
            THEN refresh_routes(loaded.mem, loaded.file, t, up, loaded.fetches)
            ELSE loaded
    IN  [mem |-> checked.mem, file |-> checked.file, exc |-> checked.exc,
         fetches |-> checked.fetches, failed |-> checked.failed,
         reads |-> IF file.exists THEN 1 ELSE 0,
         data |-> IF checked.exc = "none" THEN checked.mem.data ELSE EmptyCatalog]

\* Transport.route_list.  reads: the times routes.json is loaded (only when
\* _routes is None and the file can be opened)
route_list(mem, file, t, up) ==
    LET loaded ==
            IF mem.exists
            THEN [mem |-> mem, file |-> file, exc |-> "none", fetches |-> 0, failed |-> FALSE]
            ELSE IF file.exists
            THEN [mem |-> file, file |-> file, exc |-> "none", fetches |-> 0, failed |-> FALSE]
            ELSE refresh_routes(mem, file, t, up, 0)
        checked ==
            IF loaded.exc = "none" /\ is_outdated(loaded.mem, t)
            THEN refresh_routes(loaded.mem, loaded.file, t, up, loaded.fetches)
            ELSE loaded
    IN  [mem |-> checked.mem, file |-> checked.file, exc |-> checked.exc,
         fetches |-> checked.fetches, failed |-> checked.failed,
         reads |-> IF ~mem.exists /\ file.exists THEN 1 ELSE 0,
         data |-> IF checked.exc = "none" THEN checked.mem.data ELSE EmptyCatalog]

----------------------------------------------------------------------------
(* transport.py: the providers' _fetch_stop_list *)

\* the _bound_map of MTRBus, MTRLightRail and MTRTrain
bound_map(c, code) ==
    CASE c = "mtr_bus"   -> (IF code = "O" THEN "outbound" ELSE "inbound")
      [] c = "mtr_lrt"   -> (IF code = "1" THEN "outbound" ELSE "inbound")
      [] c = "mtr_train" -> (IF code = "UT" THEN "outbound" ELSE "inbound")

\* "-" in route_no
has_dash(no) == no = "R1-B"

\* route_no.split("-"): the line and the branch of a branch route
rt_name(no) == IF no = "R1-B" THEN "R1" ELSE no
rt_type(no) == IF no = "R1-B" THEN "B" ELSE ""

\* stop[1].split("-")[-1] of a heavy-rail direction column
last_part(code) ==
    CASE code = "B-UT" -> "UT"
      [] code = "B-DT" -> "DT"
      [] OTHER         -> code

\* rt_type in stop[1]: the substring test on the direction column
contains(code, sub) == sub = "B" /\ code \in {"B-UT", "B-DT"}

\* RouteInfo.Stop of a row
stop_of(row) == [id |-> row.id, seq |-> row.seq]

stops_of(rows) == [i \in 1..Len(rows) |-> stop_of(rows[i])]

raised(e, called) == [exc |-> e, stops |-> <<>>, called |-> called]

\* the service of a direction with the given service type, 0 when none
\* (the for/else of NewLantaoBus._fetch_stop_list)
find_service(services, st) ==
    IF \E i \in 1..Len(services) : services[i].service_type = st
    THEN CHOOSE i \in 1..Len(services) :
            /\ services[i].service_type = st
            /\ \A j \in 1..(i - 1) : services[j].service_type # st
    ELSE 0

KowloonMotorBus_fetch_stop_list(routes, up, no, d, st) ==
    IF no \notin DOMAIN routes THEN raised("RouteNotExist", FALSE)
    ELSE IF ~up.stops_ok THEN raised("ClientError", TRUE)
    ELSE LET stops == SelectSeq(up.world,
                 LAMBDA r : r.route = no /\ r.code = d /\ r.service_type = st)
         IN  IF Len(stops) = 0
             THEN raised("RouteError", TRUE)
             ELSE [exc |-> "none", stops |-> stops_of(stops), called |-> TRUE]

MTRBus_fetch_stop_list(routes, up, no, d, st) ==
    IF st # "default" THEN raised("ServiceTypeNotExist", FALSE)
    ELSE IF ~up.stops_ok THEN raised("ClientError", TRUE)
    ELSE LET stops == SelectSeq(up.world,
                 LAMBDA r : r.route = no /\ bound_map("mtr_bus", r.code) = d)
         IN  IF Len(stops) = 0
             THEN raised("RouteNotExist", TRUE)
             ELSE [exc |-> "none", stops |-> stops_of(stops), called |-> TRUE]

MTRLightRail_fetch_stop_list(routes, up, no, d, st) ==
    IF st # "default" THEN raised("ServiceTypeNotExist", FALSE)
    ELSE IF no \notin DOMAIN routes THEN raised("RouteNotExist", FALSE)
    ELSE IF ~up.stops_ok THEN raised("ClientError", TRUE)
    ELSE LET stops == SelectSeq(up.world,
                 LAMBDA r : r.route = no /\ bound_map("mtr_lrt", r.code) = d)
         IN  IF Len(stops) = 0
             THEN raised("RouteNotExist", TRUE)
             ELSE [exc |-> "none", stops |-> stops_of(stops), called |-> TRUE]

MTRTrain_fetch_stop_list(routes, up, no, d, st) ==
    IF st # "default" THEN raised("ServiceTypeNotExist", FALSE)
    ELSE IF no \notin DOMAIN routes THEN raised("RouteNotExist", FALSE)
    ELSE IF ~up.stops_ok THEN raised("ClientError", TRUE)
    ELSE LET stops ==
                 IF has_dash(no)
                 THEN SelectSeq(up.world,
                          LAMBDA r : r.route = rt_name(no) /\ contains(r.code, rt_type(no)))
                 ELSE SelectSeq(up.world,
                          LAMBDA r : r.route = no
                                     /\ bound_map("mtr_train", last_part(r.code)) = d)
         IN  IF Len(stops) = 0
             THEN raised("RouteNotExist", TRUE)
             ELSE [exc |-> "none", stops |-> stops_of(stops), called |-> TRUE]

CityBus_fetch_stop_list(routes, up, no, d, st) ==
    IF st # "default" THEN raised("ServiceTypeNotExist", FALSE)
    ELSE IF no \notin DOMAIN routes THEN raised("RouteNotExist", FALSE)
    ELSE IF ~up.stops_ok THEN raised("ClientError", TRUE)
    ELSE LET stops == SelectSeq(up.world, LAMBDA r : r.route = no /\ r.code = d)
         IN  IF Len(stops) = 0
             THEN raised("RouteNotExist", TRUE)
             ELSE [exc |-> "none", stops |-> stops_of(stops), called |-> TRUE]

\* the stop sequence is numbered by enumerate(..., start=1); an empty one is
\* returned as it is
NewLantaoBus_fetch_stop_list(routes, up, no, d, st) ==
    IF no \notin DOMAIN routes THEN raised("RouteNotExist", FALSE)
    ELSE LET i == find_service(routes[no][d], st)
         IN  IF i = 0 THEN raised("ServiceTypeNotExist", FALSE)
             ELSE IF ~up.stops_ok THEN raised("ClientError", TRUE)
             ELSE LET id_ == routes[no][d][i].route_id
                      stops == SelectSeq(up.world, LAMBDA r : r.route_id = id_)
                  IN  [exc |-> "none",
                       stops |-> [k \in 1..Len(stops) |-> [id |-> stops[k].id, seq |-> k]],
                       called |-> TRUE]

\* Transport._fetch_stop_list of the provider's subclass.  routes is what
\* self.route_list() returns inside it: the list stop_list has just loaded
fetch_stop_list(c, routes, up, no, d, st) ==
    CASE c = "kmb"       -> KowloonMotorBus_fetch_stop_list(routes, up, no, d, st)
      [] c = "mtr_bus"   -> MTRBus_fetch_stop_list(routes, up, no, d, st)
      [] c = "mtr_lrt"   -> MTRLightRail_fetch_stop_list(routes, up, no, d, st)
      [] c = "mtr_train" -> MTRTrain_fetch_stop_list(routes, up, no, d, st)
      [] c = "ctb"       -> CityBus_fetch_stop_list(routes, up, no, d, st)
      [] c = "nlb"       -> NewLantaoBus_fetch_stop_list(routes, up, no, d, st)

----------------------------------------------------------------------------
(* transport.py: Transport.stop_list, and route.py: Route.__init__ *)

\* a wrong refresh: returns what it fetched and forgets to write the file
refresh_stops_no_write(old, fetched, t) ==
    IF fetched.exc = "none"
    THEN [file |-> old, exc |-> "none", stops |-> fetched.stops]
    ELSE [file |-> old, exc |-> fetched.exc, stops |-> <<>>]

\* a wrong refresh: serves the old stop list when the fetch fails
refresh_stops_stale_fallback(old, fetched, t) ==
    IF fetched.exc = "none"
    THEN [file |-> append_timestamp(fetched.stops, t), exc |-> "none", stops |-> fetched.stops]
    ELSE IF fetched.exc = "ClientError" /\ old.exists
    THEN [file |-> old, exc |-> "none", stops |-> old.data]
    ELSE [file |-> old, exc |-> fetched.exc, stops |-> <<>>]

\* a wrong refresh: writes an empty record before it learns that the fetch
\* failed
refresh_stops_writes_on_failure(old, fetched, t) ==
    IF fetched.exc = "none"
    THEN [file |-> append_timestamp(fetched.stops, t), exc |-> "none", stops |-> fetched.stops]
    ELSE [file |-> append_timestamp(<<>>, t), exc |-> fetched.exc, stops |-> <<>>]

\* stop_list, lines 147-150: what _fetch_stop_list raises propagates and the
\* file is left alone; what it returns is stamped and written
refresh_stops(old, fetched, t) ==
    IF fetched.exc = "none"
    THEN [file |-> append_timestamp(fetched.stops, t), exc |-> "none", stops |-> fetched.stops]
    ELSE [file |-> old, exc |-> fetched.exc, stops |-> <<>>]

\* Transport.stop_list, from line 137 on: rl is what self.route_list() did.
\* n_stop_read: the times the stop file is loaded, by _is_outdated (when it
\* exists) and again by stop_list when it is not outdated
stop_list_after(rl, c, sfiles, t, up, no, d, st) ==
    LET fname == stop_list_fname(no, d, st)
        quiet == [mem |-> rl.mem, rfile |-> rl.file, sfiles |-> sfiles,
                  exc |-> "none", stops |-> <<>>, up_stops |-> <<>>,
                  n_route_fetch |-> rl.fetches, n_stop_fetch |-> 0,
                  n_route_read |-> rl.reads, n_stop_read |-> 0,
                  route_failed |-> rl.failed, stop_failed |-> FALSE]
    IN  IF rl.exc # "none" THEN [quiet EXCEPT !.exc = rl.exc]
        ELSE IF no \notin DOMAIN rl.data THEN [quiet EXCEPT !.exc = "RouteNotExist"]
        ELSE IF is_outdated(sfiles[fname], t)
        THEN \* CHOOSE binds the values once
             LET fetched == CHOOSE f \in {fetch_stop_list(c, rl.data, up, no, d, st)} : TRUE
                 done == CHOOSE x \in {refresh_stops(sfiles[fname], fetched, t)} : TRUE
             IN  [mem |-> rl.mem, rfile |-> rl.file,
                  sfiles |-> [sfiles EXCEPT ![fname] = done.file],
                  exc |-> done.exc, stops |-> done.stops, up_stops |-> fetched.stops,
                  n_route_fetch |-> rl.fetches,
                  n_stop_fetch |-> IF fetched.called THEN 1 ELSE 0,
                  n_route_read |-> rl.reads,
                  n_stop_read |-> IF sfiles[fname].exists THEN 1 ELSE 0,
                  route_failed |-> rl.failed,
                  stop_failed |-> fetched.called /\ ~up.stops_ok]
        ELSE [quiet EXCEPT !.stops = sfiles[fname].data, !.n_stop_read = 2]

\* Transport.stop_list
stop_list(c, mem, rfile, sfiles, t, up, no, d, st) ==
    LET rl == CHOOSE r \in {route_list(mem, rfile, t, up)} : TRUE
    IN  stop_list_after(rl, c, sfiles, t, up, no, d, st)

\* the dict comprehension {stop["id"]: stop for stop in ...}: a stop id met
\* again keeps its first position and takes the later value
RECURSIVE dict_of(_)
dict_of(stops) ==
    IF stops = <<>> THEN <<>>
    ELSE LET n == Len(stops)
             init == dict_of(SubSeq(stops, 1, n - 1))
             s == stops[n]
         IN  IF \E i \in 1..Len(init) : init[i].id = s.id
             THEN [i \in 1..Len(init) |-> IF init[i].id = s.id THEN s ELSE init[i]]
             ELSE Append(init, s)

\* dict.keys()
keys(d) == {d[i].id : i \in 1..Len(d)}

\* a wrong membership test: looks at the first stop only
stop_exists_first_only(d, stop_id) == d # <<>> /\ d[1].id = stop_id

\* Route.__init__, line 54: entry.stop_id in self._stop_list.keys()
stop_exists(d, stop_id) == stop_id \in keys(d)

\* Route.__init__
Route_init(c, mem, rfile, sfiles, t, up, no, d, st, stop_id) ==
    LET r == CHOOSE x \in {stop_list(c, mem, rfile, sfiles, t, up, no, d, st)} : TRUE
        dict == CHOOSE x \in {dict_of(r.stops)} : TRUE
    IN  IF r.exc # "none" THEN r
        ELSE IF ~stop_exists(dict, stop_id)
        THEN [r EXCEPT !.exc = "StopNotExist"]
        ELSE r

----------------------------------------------------------------------------
(* The cache specification: calls on the Transport of one provider *)

\* [exists, last_update] of a record
stamp_of(rec) == [exists |-> rec.exists, last_update |-> rec.last_update]

NoCall ==
    [op |-> "none", no |-> "", direction |-> "", service_type |-> "", stop_id |-> "",
     exc |-> "none", resolved |-> FALSE,
     routes |-> EmptyCatalog, stops |-> <<>>, up_stops |-> <<>>,
     n_route_fetch |-> 0, n_stop_fetch |-> 0,
     n_route_read |-> 0, n_stop_read |-> 0,
     route_failed |-> FALSE, stop_failed |-> FALSE,
     pre_routes |-> stamp_of(NoRoutes), pre_stops |-> stamp_of(NoStops), t |-> 0,
     again |-> "no", prev_stops |-> <<>>]

\* no processor: no query, no response, no call
NoEntry == [transport |-> "", no |-> "", direction |-> "", stop_id |-> "",
            service_type |-> "", locale |-> ""]

\* {}: the JSON object without a key
EmptyResponse == << >>

NoEta == [op |-> "none"]

\* no refresh round so far
NoRound == [op |-> "none"]

\* no NLB catalog is built
NoNlb ==
    /\ nlb_routes = << >>
    /\ built = [op |-> "none"]

\* no thread drives the display, whose panel is blank
NoDisplay ==
    /\ ctrl_mutex = 0
    /\ threads = << >>
    /\ panel = << >>

\* the application around the refresher is not running
\* partial_tracker() at the import of refresher: no id, count 0
NoTracker ==
    /\ log = [id |-> 0, count |-> 0]
    /\ yields = << >>

NoApp ==
    /\ NoDisplay
    /\ schedules = << >>
    /\ jobs = << >>
    /\ NoTracker

\* no concurrent callers
NoRace ==
    /\ disk = << >>
    /\ procs = << >>
    /\ order = << >>

\* the refresher has not run: no log, no screen dump
NoRefresher ==
    /\ logs = << >>
    /\ screens = << >>
    /\ round = NoRound

\* the larger catalog and the stop list of the normal query, as an earlier
\* run of the program left them on disk at time 0
LeftRoutes(c) ==
    append_timestamp(CHOOSE cat \in Catalogs(c) : "R2" \in DOMAIN cat, 0)

LeftStops(c) ==
    append_timestamp(
        fetch_stop_list(c, LeftRoutes(c).data,
            [routes_ok |-> TRUE, catalog |-> LeftRoutes(c).data,
             stops_ok |-> TRUE, world |-> WorldA(c)],
            "R1", "outbound", NormalType(c)).stops, 0)

\* the program starts on an empty data directory or on the files of an
\* earlier run
Init ==
    /\ company \in Company
    /\ now = 0
    /\ \E left \in BOOLEAN :
        /\ routes_file = IF left THEN LeftRoutes(company) ELSE NoRoutes
        /\ stops_files =
             [f \in FNames(company) |->
                IF left /\ f = stop_list_fname("R1", "outbound", NormalType(company))
                THEN LeftStops(company) ELSE NoStops]
    /\ routes_mem = NoRoutes
    /\ calls = 0
    /\ last = NoCall
    /\ entry = NoEntry
    /\ response = EmptyResponse
    /\ eta = NoEta
    /\ NoRefresher
    /\ NoApp
    /\ NoRace
    /\ NoNlb

\* time passes
Tick ==
    /\ now < MaxNow
    /\ now' = now + 1
    /\ UNCHANGED <<company, routes_file, stops_files, routes_mem, calls, last, entry, response, eta, outside>>

\* EtaFactory.create_transport: every request works on a new Transport,
\* whose _routes is None
create_transport ==
    /\ routes_mem # NoRoutes
    /\ routes_mem' = NoRoutes
    /\ UNCHANGED <<company, now, routes_file, stops_files, calls, last, entry, response, eta, outside>>

\* the record route_list examines: the memoized one, else routes.json
examined_routes == stamp_of(IF routes_mem.exists THEN routes_mem ELSE routes_file)

\* a caller reads the route list
route_list_call ==
    /\ calls < MaxCalls
    /\ \E up \in Upstreams(company) :
        \E r \in {route_list(routes_mem, routes_file, now, up)} :
            /\ routes_mem' = r.mem
            /\ routes_file' = r.file
            /\ last' = [NoCall EXCEPT
                   !.op = "route_list", !.exc = r.exc, !.routes = r.data,
                   !.n_route_fetch = r.fetches, !.route_failed = r.failed,
                   !.n_route_read = r.reads,
                   !.pre_routes = examined_routes, !.t = now]
    /\ calls' = calls + 1
    /\ UNCHANGED <<company, now, stops_files, entry, response, eta, outside>>

\* the record of a call that resolves a stop list.  resolved: stop_list
\* returned a stop list (stops).  again: the call before it was the same
\* call at the same time and returned after fetching a missing or an
\* outdated stop list
call_record(op, q, stop_id, r, resolved) ==
    [NoCall EXCEPT
        !.op = op, !.no = q[1], !.direction = q[2], !.service_type = q[3],
        !.stop_id = stop_id, !.exc = r.exc, !.resolved = resolved,
        !.routes = IF r.mem.exists THEN r.mem.data ELSE EmptyCatalog,
        !.stops = r.stops, !.up_stops = r.up_stops,
        !.n_route_fetch = r.n_route_fetch, !.n_stop_fetch = r.n_stop_fetch,
        !.n_route_read = r.n_route_read, !.n_stop_read = r.n_stop_read,
        !.route_failed = r.route_failed, !.stop_failed = r.stop_failed,
        !.pre_routes = examined_routes,
        !.pre_stops = stamp_of(stops_files[stop_list_fname(q[1], q[2], q[3])]),
        !.t = now,
        !.again = IF /\ last.op = op
                     /\ <<last.no, last.direction, last.service_type>> = q
                     /\ last.t = now
                     /\ last.exc = "none"
                     /\ last.n_stop_fetch = 1
                  THEN (IF last.pre_stops.exists THEN "after_stale" ELSE "after_missing")
                  ELSE "no",
        !.prev_stops = IF last.op = op /\ last.exc = "none" THEN last.stops ELSE <<>>]

\* a caller reads a stop list
stop_list_call ==
    /\ calls < MaxCalls
    /\ \E up \in Upstreams(company), q \in Queries(company) :
        \E r \in {stop_list(company, routes_mem, routes_file, stops_files, now, up,
                            q[1], q[2], q[3])} :
            /\ routes_mem' = r.mem
            /\ routes_file' = r.rfile
            /\ stops_files' = r.sfiles
            /\ last' = call_record("stop_list", q, "", r, r.exc = "none")
    /\ calls' = calls + 1
    /\ UNCHANGED <<company, now, entry, response, eta, outside>>

\* EtaFactory.create_route: a Route is constructed from a RouteQuery
Route_call ==
    /\ calls < MaxCalls
    /\ \E up \in Upstreams(company), q \in Queries(company), stop_id \in StopIds :
        \E r \in {Route_init(company, routes_mem, routes_file, stops_files, now, up,
                             q[1], q[2], q[3], stop_id)} :
            /\ routes_mem' = r.mem
            /\ routes_file' = r.rfile
            /\ stops_files' = r.sfiles
            /\ last' = call_record("Route", q, stop_id, r,
                                    r.exc \in {"none", "StopNotExist"})
    /\ calls' = calls + 1
    /\ UNCHANGED <<company, now, entry, response, eta, outside>>

Next ==
    \/ Tick
    \/ create_transport
    \/ route_list_call
    \/ stop_list_call
    \/ Route_call

Spec == Init /\ [][Next]_vars

----------------------------------------------------------------------------
(* Claims about the route catalog cache, checked under Spec *)

\* the stop list file of the latest call's key
last_file == stops_files[stop_list_fname(last.no, last.direction, last.service_type)]

\* the latest call read the route list record / a stop list record and
\* returned
read_routes == last.op = "route_list" /\ last.exc = "none" /\ last.pre_routes.exists
read_stops  == last.op = "stop_list" /\ last.exc = "none" /\ last.pre_stops.exists

\* C1 as stated: a returned route_list or stop_list call that read a cached
\* record made exactly one upstream fetch of that record when the record's
\* age, now - last_update, was greater than threshold days, and none when
\* the age was at most threshold days.
C1_ExactAge ==
    /\ read_routes =>
          last.n_route_fetch =
             (IF last.t - last.pre_routes.last_update > threshold * TicksPerDay THEN 1 ELSE 0)
    /\ read_stops =>
          last.n_stop_fetch =
             (IF last.t - last.pre_stops.last_update > threshold * TicksPerDay THEN 1 ELSE 0)

\* C1 as amended: a returned route_list or stop_list call that read a cached
\* record made exactly one upstream fetch of that record when the whole days
\* of the record's age, (now - last_update).days, were more than threshold,
\* and none otherwise.
C1_WholeDays ==
    /\ read_routes =>
          last.n_route_fetch =
             (IF days(last.t - last.pre_routes.last_update) > threshold THEN 1 ELSE 0)
    /\ read_stops =>
          last.n_stop_fetch =
             (IF days(last.t - last.pre_stops.last_update) > threshold THEN 1 ELSE 0)

\* a stop list record more than threshold whole days old was read and
\* fetched again
C1_Witness ==
    /\ read_stops
    /\ days(last.t - last.pre_stops.last_update) > threshold
    /\ last.n_stop_fetch = 1

\* C2: a returned stop_list call on a missing or an outdated key made one
\* upstream fetch, returned what it fetched and left on disk that data
\* stamped with the time of the call, which is not outdated; the same call
\* made again at once returns the same stops without any upstream fetch.
C2_ReadThrough ==
    /\ (last.op = "stop_list" /\ last.exc = "none"
            /\ (~last.pre_stops.exists
                \/ days(last.t - last.pre_stops.last_update) > threshold))
        => /\ last.n_stop_fetch = 1
           /\ last.stops = last.up_stops
           /\ last_file = append_timestamp(last.up_stops, last.t)
           /\ ~is_outdated(last_file, last.t)
    /\ (last.op = "stop_list" /\ last.again # "no")
        => /\ last.exc = "none"
           /\ last.stops = last.prev_stops
           /\ last.n_stop_fetch = 0

\* an outdated stop list was fetched again and the call repeated at once
C2_Witness ==
    /\ last.op = "stop_list"
    /\ last.again = "after_stale"
    /\ last.stops # <<>>

\* C3: a route_list or stop_list call (or the stop_list of a Route) in which
\* an upstream fetch failed raises that failure; it returns nothing, old data
\* included.
C3_FetchFailureRaises ==
    (last.route_failed \/ last.stop_failed) => last.exc = "ClientError"

\* the fetch that was to replace an existing outdated stop list failed
C3_Witness ==
    /\ last.op = "stop_list"
    /\ last.stop_failed
    /\ last.pre_stops.exists
    /\ last.exc = "ClientError"

\* the ids of a stop list
ids(stops) == {stops[i].id : i \in 1..Len(stops)}

\* C4: when the query's route, direction and service type resolved to a stop
\* list, constructing the Route succeeds if the query's stop id is in that
\* list and raises StopNotExist if it is not.
C4_StopChecked ==
    (last.op = "Route" /\ last.resolved)
        => last.exc = (IF last.stop_id \in ids(last.stops) THEN "none" ELSE "StopNotExist")

\* a Route was constructed on a stop that is in the list, but not first
C4_Witness ==
    /\ last.op = "Route"
    /\ last.resolved
    /\ last.exc = "none"
    /\ last.stops[1].id # last.stop_id

\* the service types the catalog lists for a route and direction
listed_types(catalog, no, d) ==
    {catalog[no][d][i].service_type : i \in 1..Len(catalog[no][d])}

\* C5 as stated: when no fetch fails, resolving a stop list raises
\* RouteNotExist for a route number the catalog does not list,
\* ServiceTypeNotExist for a service type the catalog does not list for the
\* route and direction, and RouteError when upstream has no stop for a
\* listed route, direction and service type.
C5_ErrorTaxonomy ==
    (last.op = "stop_list" /\ last.routes # EmptyCatalog
            /\ ~last.route_failed /\ ~last.stop_failed)
        => IF last.no \notin DOMAIN last.routes
           THEN last.exc = "RouteNotExist"
           ELSE IF last.service_type \notin listed_types(last.routes, last.no, last.direction)
           THEN last.exc = "ServiceTypeNotExist"
           ELSE (last.n_stop_fetch = 1 /\ last.up_stops = <<>>) => last.exc = "RouteError"

----------------------------------------------------------------------------
(* route.py: the Route an EtaProcessor works on *)

\* longest list of entries in a live response
MaxEntries == 4

\* longest route_list of a light-rail platform
MaxTrains == 2

\* a nullable value: <<>> is None, <<v>> is the value v
None == << >>
Some(v) == <<v>>

\* len(obj) and key in obj, of a JSON object
len(obj) == Cardinality(DOMAIN obj)
has(obj, key) == key \in DOMAIN obj

\* stop["name"][locale]: the model's stop records carry no names; the name
\* of a stop in a language is the pair of the language and the stop id
name_of(stop, locale) ==
    IF has(stop, "name") THEN stop.name[locale] ELSE <<locale, stop.id>>

\* the Route of a query: the query, the stop list keyed by stop id
\* (Route._stop_list) and the catalog of its provider
Route(q, stops, catalog) == [entry |-> q, stop_list |-> dict_of(stops), routes |-> catalog]

\* Route.stop_details: self._stop_list[stop_id]
stop_details(route, stop_id) ==
    CHOOSE stop \in {route.stop_list[i] : i \in 1..Len(route.stop_list)} : stop.id = stop_id

\* Route.stop_seq
stop_seq(route) == stop_details(route, route.entry.stop_id).seq

\* Route.origin
origin(route) == route.stop_list[1]

\* Route.destination: the two circular light-rail routes get a Stop built
\* here, with the key stop_id in place of id
destination(route) ==
    LET stop == route.stop_list[Len(route.stop_list)]
    IN  IF route.entry.transport = "mtr_lrt" /\ route.entry.no \in {"705", "706"}
        THEN [stop_id |-> stop.id, seq |-> stop.seq,
              name |-> [en |-> <<"en", "TSW Circular">>, tc |-> <<"tc", "TSW Circular">>]]
        ELSE stop

\* Route.stop_type
stop_type(route) ==
    IF origin(route).id = route.entry.stop_id THEN "ORIG"
    ELSE IF ~has(destination(route), "id") THEN "KeyError"
    ELSE IF destination(route).id = route.entry.stop_id THEN "DEST"
    ELSE "STOP"

\* Route.stop_name, Route.orig_name, Route.dest_name
stop_name(route) == name_of(stop_details(route, route.entry.stop_id), route.entry.locale)
orig_name(route) == name_of(origin(route), route.entry.locale)
dest_name(route) == name_of(destination(route), route.entry.locale)

\* Route.id: the services of the route and direction are searched for the
\* service type; on the first match the list of services itself is indexed
\* with "route_id", which is a TypeError
Route_id(route) ==
    LET services == route.routes[route.entry.no][route.entry.direction]
    IN  IF \E i \in 1..Len(services) : services[i].service_type = route.entry.service_type
        THEN [exc |-> "TypeError", value |-> None]
        ELSE [exc |-> "ServiceTypeNotExist", value |-> None]

----------------------------------------------------------------------------
(* eta_processor.py: EtaProcessor *)

\* Eta.Error and the list[Eta.Time] of Eta.etas
Error(message) == [type |-> "Error", list |-> <<>>, message |-> message]
TimeList(times) == [type |-> "list", list |-> times, message |-> ""]

\* Eta.Time; the eta_minute the processors pass is not a field of the
\* model and pydantic drops it
Time(dest, arriving, scheduled, eta_dt, remark, extras) ==
    [destination |-> dest, is_arriving |-> arriving, is_scheduled |-> scheduled,
     eta |-> eta_dt, remark |-> remark, extras |-> extras]

\* a wrong _em: the English text whatever the locale
em_english_only(code, locale) ==
    CASE code = "api-error" -> "API Error"
      [] code = "empty"     -> "No Data"
      [] code = "eos"       -> "Not in Service"
      [] code = "ss-effect" -> "Special Service in Effect"

\* EtaProcessor._em; the tc texts stand for the Chinese strings of the
\* source, in the order of the source
em(code, locale) ==
    CASE code = "api-error" -> (IF locale = "en" THEN "API Error" ELSE "tc: API cuo wu")
      [] code = "empty"     -> (IF locale = "en" THEN "No Data" ELSE "tc: mei you yu bao")
      [] code = "eos"       -> (IF locale = "en" THEN "Not in Service"
                                ELSE "tc: fu wu shi jian yi guo")
      [] code = "ss-effect" -> (IF locale = "en" THEN "Special Service in Effect"
                                ELSE "tc: te bie che wu an pai")

\* what an etas() call did: returned an Eta, returned None, or raised
NoOutcome ==
    [returned |-> "", exc |-> "none", no |-> "", origin |-> <<>>, destination |-> <<>>,
     stop_name |-> <<>>, locale |-> "", etas |-> TimeList(<<>>)]

raises(exc) == [NoOutcome EXCEPT !.returned = "raise", !.exc = exc]

returns_None == [NoOutcome EXCEPT !.returned = "None"]

\* EtaProcessor._g_eta
g_eta(route, etas) ==
    [returned |-> "Eta", exc |-> "none", no |-> route.entry.no,
     origin |-> orig_name(route), destination |-> dest_name(route),
     stop_name |-> stop_name(route), locale |-> route.entry.locale, etas |-> etas]

\* direction[0].upper()
initial(direction) == IF direction = "outbound" THEN "O" ELSE "I"

\* rmk_{locale} and dest_{locale} of a response entry
rmk(e, lang) == IF lang = "en" THEN e.rmk_en ELSE e.rmk_tc
dest(e, lang) == IF lang = "en" THEN e.dest_en ELSE e.dest_tc

----------------------------------------------------------------------------
(* eta_processor.py: KmbEta.  Times are seconds after the response's
   generated_timestamp. *)

FinalBus == "The final bus has departed from this stop"

\* the loop of KmbEta.etas without its break
KmbEta_entry_no_break(route, stop, etas) ==
    IF stop.seq # stop_seq(route) \/ stop.dir # initial(route.entry.direction)
    THEN [return |-> FALSE, break |-> FALSE, etas |-> etas, value |-> NoOutcome]
    ELSE IF stop.eta = None
    THEN [return |-> TRUE, break |-> FALSE, etas |-> etas,
          value |-> IF stop.rmk_en = FinalBus
                    THEN g_eta(route, Error(em("eos", route.entry.locale)))
                    ELSE IF stop.rmk_en = ""
                    THEN g_eta(route, Error(em("empty", route.entry.locale)))
                    ELSE g_eta(route, Error(rmk(stop, route.entry.locale)))]
    ELSE [return |-> FALSE, break |-> FALSE, value |-> NoOutcome,
          etas |-> Append(etas,
                     Time(dest(stop, route.entry.locale),
                          stop.eta[1] < 30,
                          rmk(stop, route.entry.locale) \in {"tc: yuan ding ban ci", "Scheduled Bus"},
                          stop.eta, Some(rmk(stop, route.entry.locale)), << >>))]

\* the loop of KmbEta.etas without the test of the final-bus remark
KmbEta_entry_no_eos(route, stop, etas) ==
    IF stop.seq # stop_seq(route) \/ stop.dir # initial(route.entry.direction)
    THEN [return |-> FALSE, break |-> FALSE, etas |-> etas, value |-> NoOutcome]
    ELSE IF stop.eta = None
    THEN [return |-> TRUE, break |-> FALSE, etas |-> etas,
          value |-> IF stop.rmk_en = ""
                    THEN g_eta(route, Error(em("empty", route.entry.locale)))
                    ELSE g_eta(route, Error(rmk(stop, route.entry.locale)))]
    ELSE LET more == Append(etas,
                       Time(dest(stop, route.entry.locale),
                            stop.eta[1] < 30,
                            rmk(stop, route.entry.locale) \in {"tc: yuan ding ban ci", "Scheduled Bus"},
                            stop.eta, Some(rmk(stop, route.entry.locale)), << >>))
         IN  [return |-> FALSE, break |-> Len(more) = 3, etas |-> more, value |-> NoOutcome]

\* KmbEta.etas, lines 98-123: one pass of the loop over response['data'].
\* An entry of another stop or direction is skipped; the first entry of the
\* stop without an eta ends the call with an error; an entry with an eta is
\* appended and the third one breaks the loop
KmbEta_entry(route, stop, etas) ==
    IF stop.seq # stop_seq(route) \/ stop.dir # initial(route.entry.direction)
    THEN [return |-> FALSE, break |-> FALSE, etas |-> etas, value |-> NoOutcome]
    ELSE IF stop.eta = None
    THEN [return |-> TRUE, break |-> FALSE, etas |-> etas,
          value |-> IF stop.rmk_en = FinalBus
                    THEN g_eta(route, Error(em("eos", route.entry.locale)))
                    ELSE IF stop.rmk_en = ""
                    THEN g_eta(route, Error(em("empty", route.entry.locale)))
                    ELSE g_eta(route, Error(rmk(stop, route.entry.locale)))]
    ELSE LET more == Append(etas,
                       Time(dest(stop, route.entry.locale),
                            stop.eta[1] < 30,
                            rmk(stop, route.entry.locale) \in {"tc: yuan ding ban ci", "Scheduled Bus"},
                            stop.eta, Some(rmk(stop, route.entry.locale)), << >>))
         IN  [return |-> FALSE, break |-> Len(more) = 3, etas |-> more, value |-> NoOutcome]

\* KmbEta.etas, the loop from entry i on
RECURSIVE KmbEta_loop(_, _, _, _)
KmbEta_loop(route, data, i, etas) ==
    IF i > Len(data) THEN g_eta(route, TimeList(etas))
    ELSE LET step == CHOOSE x \in {KmbEta_entry(route, data[i], etas)} : TRUE
         IN  IF step.return THEN step.value
             ELSE IF step.break THEN g_eta(route, TimeList(step.etas))
             ELSE KmbEta_loop(route, data, i + 1, step.etas)

\* KmbEta.etas
KmbEta_etas(route, resp) ==
    IF len(resp) = 0 THEN g_eta(route, Error(em("api-error", route.entry.locale)))
    ELSE IF ~has(resp, "data") THEN g_eta(route, Error(em("empty", route.entry.locale)))
    ELSE KmbEta_loop(route, resp.data, 1, <<>>)

\* the entries a KMB response is made of: of another stop (the final bus of
\* that stop has left), of the other direction, with an eta (live, or
\* scheduled and due), and without an eta under three remarks
KmbEntry(seq, dir, eta_dt, rmk_en, rmk_tc) ==
    [seq |-> seq, dir |-> dir, eta |-> eta_dt, rmk_en |-> rmk_en, rmk_tc |-> rmk_tc,
     dest_en |-> <<"en", "s3">>, dest_tc |-> <<"tc", "s3">>]

KmbEntries(route) ==
    LET seq == stop_seq(route)
        dir == initial(route.entry.direction)
    IN  {KmbEntry(seq + 1, dir, None, FinalBus, "tc: ben zhan wei ban che yi guo"),
         KmbEntry(seq, "I", Some(600), "", ""),
         KmbEntry(seq, dir, Some(600), "", ""),
         KmbEntry(seq, dir, Some(20), "Scheduled Bus", "tc: yuan ding ban ci"),
         KmbEntry(seq, dir, None, FinalBus, "tc: ben zhan wei ban che yi guo"),
         KmbEntry(seq, dir, None, "", ""),
         KmbEntry(seq, dir, None, "Service suspended", "tc: fu wu zan ting")}

\* lists of at most n entries
Lists(S, n) == UNION {[1..k -> S] : k \in 0..n}

\* the responses of KMB's route-eta: {}, one without data, and lists of entries
KmbResponses(route) ==
    {EmptyResponse, [generated_timestamp |-> 0]}
    \cup {[generated_timestamp |-> 0, data |-> d] : d \in Lists(KmbEntries(route), MaxEntries)}

----------------------------------------------------------------------------
(* eta_processor.py: MtrBusEta.  A text is the list of its words
   (text.split(" ")), a word the list of its characters; times are seconds
   after routeStatusTime. *)

\* str.isdigit of a character, str.isnumeric of a word
isdigit(ch) == ch \in {"0", "1", "2", "3", "4", "5", "6", "7", "8", "9"}
isnumeric(word) == Len(word) > 0 /\ \A i \in 1..Len(word) : isdigit(word[i])

\* int() of a numeric word
RECURSIVE int_of(_)
int_of(word) ==
    IF word = <<>> THEN 0
    ELSE 10 * int_of(SubSeq(word, 1, Len(word) - 1))
         + (CHOOSE n \in 0..9 :
              <<"0", "1", "2", "3", "4", "5", "6", "7", "8", "9">>[n + 1] = word[Len(word)])

\* any(char.isdigit() for char in text)
any_digit(text) == \E w \in 1..Len(text) : \E i \in 1..Len(text[w]) : isdigit(text[w][i])

\* "3 min" (the minutes to go) and "due" (arriving, departing)
Text3min == << <<"3">>, <<"m", "i", "n">> >>
TextDue == << <<"d", "u", "e">> >>

\* MtrBusEta.etas, lines 153-177: the Eta.Time of one bus
MtrBusEta_bus(route, bus) ==
    LET departs == stop_type(route) = "ORIG"
        text == IF departs THEN bus.departureTimeText ELSE bus.arrivalTimeText
        secs == IF departs THEN bus.departureTimeInSecond ELSE bus.arrivalTimeInSecond
    IN  IF any_digit(text)
        THEN Time(name_of(destination(route), route.entry.locale), FALSE,
                  bus.busLocation.longitude = 0, Some(secs), None, << >>)
        ELSE Time(name_of(destination(route), route.entry.locale), TRUE,
                  bus.busLocation.longitude = 0, Some(0), Some(text), << >>)

\* MtrBusEta.etas, lines 148-178: the buses of the first busStop entry of
\* the queried stop
MtrBusEta_loop(route, busStop) ==
    LET at == {i \in 1..Len(busStop) : busStop[i].busStopId = route.entry.stop_id}
    IN  IF at = {} THEN <<>>
        ELSE LET stop == busStop[CHOOSE i \in at : \A j \in at : i <= j]
             IN  [k \in 1..Len(stop.bus) |-> MtrBusEta_bus(route, stop.bus[k])]

\* MtrBusEta.etas
MtrBusEta_etas(route, resp) ==
    IF len(resp) = 0 THEN g_eta(route, Error(em("api-error", route.entry.locale)))
    ELSE IF resp.routeStatusRemarkTitle # None
    THEN (IF resp.routeStatusRemarkTitle[1] \in {"tc: ting zhi fu wu", "Non-service hours"}
          THEN g_eta(route, Error(em("eos", route.entry.locale)))
          ELSE g_eta(route, Error(resp.routeStatusRemarkTitle[1])))
    ELSE g_eta(route, TimeList(MtrBusEta_loop(route, resp.busStop)))

\* the buses of a response: tracked and minutes away, scheduled (no
\* position) and minutes away, arriving but leaving in minutes
MtrBuses ==
    {[arrivalTimeText |-> Text3min, arrivalTimeInSecond |-> 180,
      departureTimeText |-> Text3min, departureTimeInSecond |-> 240,
      busLocation |-> [longitude |-> 114]],
     [arrivalTimeText |-> Text3min, arrivalTimeInSecond |-> 180,
      departureTimeText |-> Text3min, departureTimeInSecond |-> 240,
      busLocation |-> [longitude |-> 0]],
     [arrivalTimeText |-> TextDue, arrivalTimeInSecond |-> 0,
      departureTimeText |-> Text3min, departureTimeInSecond |-> 200,
      busLocation |-> [longitude |-> 114]]}

\* the busStop lists of a response: the queried stop may be missing, come
\* after another stop, or come twice
MtrBusStops(route) ==
    LET other == [busStopId |-> "s9", bus |-> <<CHOOSE b \in MtrBuses : b.busLocation.longitude = 0>>]
    IN  {<<>>, <<other>>}
        \cup UNION {{<<[busStopId |-> route.entry.stop_id, bus |-> l]>>,
                     <<other, [busStopId |-> route.entry.stop_id, bus |-> l]>>,
                     <<[busStopId |-> route.entry.stop_id, bus |-> l],
                       [busStopId |-> route.entry.stop_id, bus |-> l]>>}
                    : l \in Lists(MtrBuses, MaxEntries)}

\* the responses of MTR's bus schedule: {}, a route status remark, bus stops
MtrBusResponses(route) ==
    {EmptyResponse}
    \cup {[routeStatusRemarkTitle |-> Some(t), routeStatusTime |-> 0, busStop |-> <<>>]
            : t \in {"tc: ting zhi fu wu", "Non-service hours", "Service delayed"}}
    \cup {[routeStatusRemarkTitle |-> None, routeStatusTime |-> 0, busStop |-> b]
            : b \in MtrBusStops(route)}

----------------------------------------------------------------------------
(* eta_processor.py: MtrLrtEta.  Times are minutes after system_time. *)

\* _locale_map of MtrLrtEta
lrt_lang(locale) == IF locale = "tc" THEN "ch" ELSE "en"

\* dest_{lang_code} and time_{lang_code} of a train; a train may have no
\* destination
lrt_dest(e, lang) ==
    IF lang = "en" THEN (IF has(e, "dest_en") THEN Some(e.dest_en) ELSE None)
    ELSE (IF has(e, "dest_ch") THEN Some(e.dest_ch) ELSE None)
lrt_time(e, lang) == IF lang = "en" THEN e.time_en ELSE e.time_ch

\* MtrLrtEta.etas, lines 203-242: one train of a platform is skipped, is
\* counted as stopped, or gives an Eta.Time
MtrLrtEta_train(route, platform, e) ==
    LET lang == lrt_lang(route.entry.locale)
        eta_min == lrt_time(e, lang)[1]
        extras == [platform |-> platform.platform_id, car_length |-> e.train_length]
    IN  IF e.route_no # route.entry.no THEN [kind |-> "skip"]
        ELSE IF has(e, "stop") /\ e.stop = 1 THEN [kind |-> "stopped"]
        ELSE IF lrt_dest(e, lang) # Some(name_of(destination(route), route.entry.locale))
        THEN [kind |-> "skip"]
        ELSE IF isnumeric(eta_min)
        THEN [kind |-> "time",
              time |-> Time(lrt_dest(e, lang)[1], FALSE, FALSE, Some(int_of(eta_min)), None, extras)]
        ELSE [kind |-> "time",
              time |-> Time(lrt_dest(e, lang)[1], TRUE, FALSE, Some(0), Some(eta_min), extras)]

\* platform.get("route_list", [])
lrt_route_list(platform) == IF has(platform, "route_list") THEN platform.route_list ELSE <<>>

\* the trains of all platforms, in the order of the response, each as
\* MtrLrtEta_train finds it
RECURSIVE MtrLrtEta_loop(_, _)
MtrLrtEta_loop(route, platforms) ==
    IF platforms = <<>> THEN <<>>
    ELSE LET platform == Head(platforms)
             trains == lrt_route_list(platform)
         IN  [k \in 1..Len(trains) |-> MtrLrtEta_train(route, platform, trains[k])]
             \o MtrLrtEta_loop(route, Tail(platforms))

\* MtrLrtEta.etas; when no train is left in the list, no red alert is on
\* and no train is stopped, the method ends without a return statement
MtrLrtEta_etas(route, resp) ==
    IF len(resp) = 0 \/ (IF has(resp, "status") THEN resp.status ELSE 0) = 0
    THEN g_eta(route, Error(em("api-error", route.entry.locale)))
    ELSE IF \A i \in 1..Len(resp.platform_list) :
                has(resp.platform_list[i], "end_service_status")
                /\ resp.platform_list[i].end_service_status
    THEN g_eta(route, Error(em("eos", route.entry.locale)))
    ELSE LET found == CHOOSE x \in {MtrLrtEta_loop(route, resp.platform_list)} : TRUE
             times == SelectSeq(found, LAMBDA f : f.kind = "time")
             etas == [k \in 1..Len(times) |-> times[k].time]
             cnt_stopped == Len(SelectSeq(found, LAMBDA f : f.kind = "stopped"))
         IN  IF Len(etas) > 0 THEN g_eta(route, TimeList(etas))
             ELSE IF has(resp, "red_alert_status")
             THEN g_eta(route, Error(IF lrt_lang(route.entry.locale) = "en"
                                     THEN resp.red_alert_message_en
                                     ELSE resp.red_alert_message_ch))
             ELSE IF cnt_stopped > 0
             THEN g_eta(route, Error(em("eos", route.entry.locale)))
             ELSE returns_None

\* the trains of a platform: minutes away, arriving ("-"), of another
\* route, and stopped
LrtTrains(route) ==
    LET dest_en == name_of(destination(route), "en")
        dest_ch == name_of(destination(route), "tc")
    IN  {[route_no |-> route.entry.no, dest_en |-> dest_en, dest_ch |-> dest_ch,
          time_en |-> Text3min, time_ch |-> Text3min, train_length |-> 2],
         [route_no |-> route.entry.no, dest_en |-> dest_en, dest_ch |-> dest_ch,
          time_en |-> << <<"-">> >>, time_ch |-> << <<"-">> >>, train_length |-> 1],
         [route_no |-> "R9", dest_en |-> dest_en, dest_ch |-> dest_ch,
          time_en |-> Text3min, time_ch |-> Text3min, train_length |-> 1],
         [route_no |-> route.entry.no, time_en |-> << <<"-">> >>, time_ch |-> << <<"-">> >>,
          train_length |-> 1, stop |-> 1]}

\* platform p: out of service, or with a list of trains
LrtPlatforms(route, p) ==
    {[platform_id |-> p, end_service_status |-> TRUE]}
    \cup {[platform_id |-> p, route_list |-> l] : l \in Lists(LrtTrains(route), MaxTrains)}

\* the platform lists of a stop with up to two platforms
LrtPlatformLists(route) ==
    {<<>>}
    \cup {<<a>> : a \in LrtPlatforms(route, 1)}
    \cup {<<a, b>> : a \in LrtPlatforms(route, 1), b \in LrtPlatforms(route, 2)}

\* the responses of MTR's light-rail schedule: {}, a failure (status 0),
\* and platform lists without and with a red alert
MtrLrtResponses(route) ==
    {EmptyResponse, [status |-> 0]}
    \cup {[status |-> 1, system_time |-> 0, platform_list |-> l]
            : l \in LrtPlatformLists(route)}
    \cup {[status |-> 1, system_time |-> 0, platform_list |-> l, red_alert_status |-> 1,
           red_alert_message_en |-> "Red alert", red_alert_message_ch |-> "tc: hong se jing bao"]
            : l \in LrtPlatformLists(route)}

----------------------------------------------------------------------------
(* eta_processor.py: MtrTrainEta.  Times are seconds after curr_time. *)

\* MtrTrainEta.__init__: linename and direction
linename(no) == IF has_dash(no) THEN rt_name(no) ELSE no
train_direction(direction) == IF direction = "inbound" THEN "UP" ELSE "DOWN"

\* "suspended" in response['message'], over the messages of the model
mentions_suspended(message) == message \in {"Service is suspended"}

\* MtrTrainEta.etas, lines 290-301: the Eta.Time of the trains; the
\* destination of a train is looked up in the Route's stop list, and a
\* station that is not in it is a KeyError
MtrTrainEta_loop(route, etadata) ==
    IF \E k \in 1..Len(etadata) : etadata[k].dest \notin keys(route.stop_list)
    THEN raises("KeyError")
    ELSE g_eta(route, TimeList(
            [k \in 1..Len(etadata) |->
                Time(name_of(stop_details(route, etadata[k].dest), route.entry.locale),
                     etadata[k].time < 90, FALSE, Some(etadata[k].time), None,
                     [platform |-> etadata[k].plat])]))

\* MtrTrainEta.etas
MtrTrainEta_etas(route, resp) ==
    LET station == <<linename(route.entry.no), route.entry.stop_id>>
        direction == train_direction(route.entry.direction)
    IN  IF len(resp) = 0 THEN g_eta(route, Error(em("api-error", route.entry.locale)))
        ELSE IF (IF has(resp, "status") THEN resp.status ELSE 0) = 0
        THEN (IF mentions_suspended(resp.message)
              THEN g_eta(route, Error(resp.message))
              ELSE IF has(resp, "url")
              THEN g_eta(route, Error(em("ss-effect", route.entry.locale)))
              ELSE g_eta(route, Error(em("api-error", route.entry.locale))))
        ELSE IF ~has(resp.data[station], direction)
        THEN g_eta(route, Error(em("empty", route.entry.locale)))
        ELSE MtrTrainEta_loop(route, resp.data[station][direction])

\* the trains of a response: due, minutes away, and bound for the terminus
\* of the other branch of the line
TrainEntries ==
    {[time |-> 60, dest |-> "s4", plat |-> "1"],
     [time |-> 600, dest |-> "s4", plat |-> "1"],
     [time |-> 600, dest |-> "s3", plat |-> "2"]}

\* what a response holds for the station: trains in neither, one or both
\* directions
TrainStation ==
    LET up == <<CHOOSE e \in TrainEntries : e.time = 60>>
    IN  {<< >>, [UP |-> up]}
        \cup {[DOWN |-> l] : l \in Lists(TrainEntries, MaxEntries)}
        \cup {[UP |-> up, DOWN |-> l] : l \in Lists(TrainEntries, MaxEntries)}

\* the responses of MTR's next-train schedule: {}, failures (status 0) with
\* and without a url, and the trains of the queried station
MtrTrainResponses(route) ==
    LET station == <<linename(route.entry.no), route.entry.stop_id>>
    IN  {EmptyResponse}
        \cup {[status |-> 0, message |-> m] : m \in {"Service is suspended", "No data"}}
        \cup {[status |-> 0, message |-> m, url |-> "https://www.mtr.com.hk/alert"]
                : m \in {"Service is suspended", "Special train service arrangements"}}
        \cup {[status |-> 1, curr_time |-> 0, data |-> [k \in {station} |-> t]]
                : t \in TrainStation}

----------------------------------------------------------------------------
(* eta_processor.py: BravoBusEta and NlbEta.  Times are seconds after the
   response's generated_timestamp (BravoBusEta) or after the time of the
   call (NlbEta). *)

\* BravoBusEta.etas, lines 323-345: the Eta.Time of the entries of the
\* queried direction; an entry whose eta is "" (None here) is a scheduled one
BravoBusEta_loop(route, data) ==
    LET mine == SelectSeq(data, LAMBDA e : e.dir = initial(route.entry.direction))
    IN  [k \in 1..Len(mine) |->
            IF mine[k].eta = None
            THEN Time(dest(mine[k], route.entry.locale), FALSE, TRUE, None,
                      Some(rmk(mine[k], route.entry.locale)), << >>)
            ELSE Time(dest(mine[k], route.entry.locale), mine[k].eta[1] < 60, FALSE,
                      mine[k].eta, Some(rmk(mine[k], route.entry.locale)), << >>)]

\* BravoBusEta.etas
BravoBusEta_etas(route, resp) ==
    IF len(resp) = 0 \/ ~has(resp, "data")
    THEN g_eta(route, Error(em("api-error", route.entry.locale)))
    ELSE IF Len(resp.data) = 0
    THEN g_eta(route, Error(em("empty", route.entry.locale)))
    ELSE g_eta(route, TimeList(BravoBusEta_loop(route, resp.data)))

\* the entries of a Citybus response: of the other direction, due, minutes
\* away, and without an eta
BravoEntries(route) ==
    LET dir == initial(route.entry.direction)
        e(d, t) == [dir |-> d, eta |-> t, rmk_en |-> "", rmk_tc |-> "",
                    dest_en |-> <<"en", "s3">>, dest_tc |-> <<"tc", "s3">>]
    IN  {e("I", Some(600)), e(dir, Some(30)), e(dir, Some(600)), e(dir, None)}

BravoBusResponses(route) ==
    {EmptyResponse, [generated_timestamp |-> 0]}
    \cup {[generated_timestamp |-> 0, data |-> d] : d \in Lists(BravoEntries(route), MaxEntries)}

\* NlbEta.etas: self.route.id() is evaluated before the request is made;
\* in the loop, self.route.destination() is a dict and has no attribute name
NlbEta_etas(route, resp) ==
    LET id == Route_id(route)
    IN  IF id.exc # "none" THEN raises(id.exc)
        ELSE IF len(resp) = 0 THEN g_eta(route, Error(em("api-error", route.entry.locale)))
        ELSE IF ~has(resp, "estimatedArrivals") \/ resp.estimatedArrivals = <<>>
        THEN g_eta(route, Error(em("empty", route.entry.locale)))
        ELSE raises("AttributeError")

\* the arrivals of an NLB response: departed and tracked, departed without
\* GPS, not yet departed
NlbArrivals ==
    {[estimatedArrivalTime |-> 30, departed |-> "1", noGPS |-> "0"],
     [estimatedArrivalTime |-> 600, departed |-> "1", noGPS |-> "1"],
     [estimatedArrivalTime |-> 600, departed |-> "0", noGPS |-> "0"]}

NlbResponses(route) ==
    {EmptyResponse, [message |-> "no arrivals"]}
    \cup {[estimatedArrivals |-> l] : l \in Lists(NlbArrivals, MaxEntries)}

----------------------------------------------------------------------------
(* The processor specification: etas() applied to a live response *)

\* the queries the processors are made for: a stop of route R1 outbound
\* (the first stop as well for MTR Bus, whose origin is handled apart), and
\* for the heavy rail also branch R1-B of the line
EtaQueries(c) ==
    [transport : {c},
     no : IF c = "mtr_train" THEN {"R1", "R1-B"} ELSE {"R1"},
     direction : {"outbound"},
     stop_id : IF c = "mtr_bus" THEN {"s1", "s2"} ELSE IF c = "mtr_train" THEN {"s1"} ELSE {"s2"},
     service_type : {NormalType(c)},
     locale : Locale]

\* the stop lists Transport.stop_list cached when the Routes of the queries
\* were constructed
EtaStopsFiles(c) ==
    LET up == [routes_ok |-> TRUE, catalog |-> LeftRoutes(c).data,
               stops_ok |-> TRUE, world |-> WorldA(c)]
    IN  [f \in FNames(c) |->
            IF \E q \in EtaQueries(c) : f = stop_list_fname(q.no, q.direction, q.service_type)
            THEN append_timestamp(
                     fetch_stop_list(c, LeftRoutes(c).data, up, f[1], f[2], f[3]).stops, 0)
            ELSE NoStops]

\* EtaFactory.create_route: the Route of a query over the cached catalog
route_of(q, sfiles, rfile) ==
    Route(q, sfiles[stop_list_fname(q.no, q.direction, q.service_type)].data, rfile.data)

\* the live responses of a provider
Responses(c, route) ==
    CASE c = "kmb"       -> KmbResponses(route)
      [] c = "mtr_bus"   -> MtrBusResponses(route)
      [] c = "mtr_lrt"   -> MtrLrtResponses(route)
      [] c = "mtr_train" -> MtrTrainResponses(route)
      [] c = "ctb"       -> BravoBusResponses(route)
      [] c = "nlb"       -> NlbResponses(route)

\* a Route of the cached catalog has been constructed and upstream is about
\* to answer the processor's request
InitEta ==
    /\ company \in Company
    /\ now = 0
    /\ routes_file = LeftRoutes(company)
    /\ stops_files = EtaStopsFiles(company)
    /\ routes_mem = LeftRoutes(company)
    /\ calls = 0
    /\ last = NoCall
    /\ entry \in EtaQueries(company)
    /\ response \in Responses(company, route_of(entry, stops_files, routes_file))
    /\ eta = NoEta
    /\ NoRefresher
    /\ NoApp
    /\ NoRace
    /\ NoNlb

\* EtaProcessor.route: the Route of the processor
self_route == route_of(entry, stops_files, routes_file)

\* EtaFactory.create_eta_processor(query).etas(), by provider: the cache
\* is only read
etas(op, out) ==
    /\ eta' = [op |-> op, out |-> out]
    /\ UNCHANGED <<company, now, routes_file, stops_files, routes_mem, calls, last,
                   entry, response, outside>>

KmbEta == company = "kmb" /\ etas("KmbEta", KmbEta_etas(self_route, response))

MtrBusEta == company = "mtr_bus" /\ etas("MtrBusEta", MtrBusEta_etas(self_route, response))

MtrLrtEta == company = "mtr_lrt" /\ etas("MtrLrtEta", MtrLrtEta_etas(self_route, response))

MtrTrainEta == company = "mtr_train" /\ etas("MtrTrainEta", MtrTrainEta_etas(self_route, response))

BravoBusEta == company = "ctb" /\ etas("BravoBusEta", BravoBusEta_etas(self_route, response))

NlbEta == company = "nlb" /\ etas("NlbEta", NlbEta_etas(self_route, response))

NextEta ==
    \/ KmbEta
    \/ MtrBusEta
    \/ MtrLrtEta
    \/ MtrTrainEta
    \/ BravoBusEta
    \/ NlbEta

SpecEta == InitEta /\ [][NextEta]_vars

----------------------------------------------------------------------------
(* Claims about the ETA processors, checked under SpecEta *)

\* etas() has been called, and what it did
called == eta.op # "none"

\* etas() returned an Eta with this error message / with a list of times
is_error(message) ==
    eta.out.returned = "Eta" /\ eta.out.etas.type = "Error" /\ eta.out.etas.message = message
is_times == eta.out.returned = "Eta" /\ eta.out.etas.type = "list"

\* the entries of a KMB response that are of the queried stop sequence and
\* direction
kmb_mine ==
    IF has(response, "data")
    THEN {i \in 1..Len(response.data) :
            /\ response.data[i].seq = stop_seq(self_route)
            /\ response.data[i].dir = initial(entry.direction)}
    ELSE {}

\* C6 as stated: whatever the live response, etas() returns an Eta whose
\* etas is a list of times or an error; it neither raises nor returns
\* nothing.
C6_AlwaysUnifiedEta ==
    called => (eta.out.returned = "Eta" /\ eta.out.etas.type \in {"list", "Error"})

\* what the providers' responses carry: no content at all; an explicit
\* statement that there is no data; the end-of-service marker; the
\* special-service marker
is_empty == len(response) = 0

no_data ==
    CASE company = "kmb"       -> ~has(response, "data")
      [] company = "ctb"       -> has(response, "data") /\ Len(response.data) = 0
      [] company = "nlb"       -> \/ ~has(response, "estimatedArrivals")
                                  \/ response.estimatedArrivals = <<>>
      [] company = "mtr_train" ->
            /\ has(response, "data")
            /\ ~has(response.data[<<linename(entry.no), entry.stop_id>>],
                    train_direction(entry.direction))
      [] OTHER                 -> FALSE

end_of_service ==
    CASE company = "kmb"     ->
            /\ kmb_mine # {}
            /\ LET first == CHOOSE i \in kmb_mine : \A j \in kmb_mine : i <= j
               IN  response.data[first].eta = None /\ response.data[first].rmk_en = FinalBus
      [] company = "mtr_bus" ->
            /\ response.routeStatusRemarkTitle # None
            /\ response.routeStatusRemarkTitle[1] \in {"tc: ting zhi fu wu", "Non-service hours"}
      [] company = "mtr_lrt" ->
            /\ has(response, "platform_list")
            /\ \A i \in 1..Len(response.platform_list) :
                  /\ has(response.platform_list[i], "end_service_status")
                  /\ response.platform_list[i].end_service_status
      [] OTHER               -> FALSE

special_service ==
    /\ company = "mtr_train"
    /\ has(response, "url")
    /\ ~mentions_suspended(response.message)

\* C7 as stated: for every provider an empty response gives "API Error";
\* otherwise an explicit no-data response gives "No Data"; otherwise the
\* end-of-service marker gives "Not in Service"; otherwise the
\* special-service marker gives "Special Service in Effect"; and a list of
\* times is returned only when none of the four holds.
C7_Precedence ==
    called =>
        /\ IF is_empty THEN is_error(em("api-error", entry.locale))
           ELSE IF no_data THEN is_error(em("empty", entry.locale))
           ELSE IF end_of_service THEN is_error(em("eos", entry.locale))
           ELSE IF special_service THEN is_error(em("ss-effect", entry.locale))
           ELSE TRUE
        /\ is_times => ~(is_empty \/ no_data \/ end_of_service \/ special_service)

\* C8 as stated: when a KMB response holds, for the queried stop sequence
\* and direction, an entry with the final-bus remark, etas() returns the
\* "Not in Service" error, whatever entries come before or after it.
C8_FinalBusAnywhere ==
    (eta.op = "KmbEta" /\ \E i \in kmb_mine : response.data[i].rmk_en = FinalBus)
        => is_error(em("eos", entry.locale))

\* the entries of the queried stop and direction that have no eta
kmb_no_eta == {i \in kmb_mine : response.data[i].eta = None}

\* C8 as amended: when the first entry without an eta among those of the
\* queried stop sequence and direction carries the final-bus remark, and
\* fewer than three entries of that stop and direction come before it,
\* etas() returns the "Not in Service" error.
C8_FinalBusFirst ==
    (eta.op = "KmbEta" /\ kmb_no_eta # {})
        => LET first == CHOOSE i \in kmb_no_eta : \A j \in kmb_no_eta : i <= j
           IN  (/\ response.data[first].rmk_en = FinalBus
                /\ Cardinality({j \in kmb_mine : j < first}) < 3)
                   => is_error(em("eos", entry.locale))

\* the final-bus entry came after an entry with an eta and before another
\* entry of the stop, and the call returned "Not in Service"
C8_Witness ==
    /\ eta.op = "KmbEta"
    /\ is_error(em("eos", entry.locale))
    /\ \E i \in kmb_mine :
          /\ response.data[i].rmk_en = FinalBus
          /\ \E j \in kmb_mine : j < i /\ response.data[j].eta # None
          /\ \E k \in kmb_mine : k > i

\* every platform of a light-rail response reports end_service_status
all_platforms_ended ==
    /\ has(response, "platform_list")
    /\ \A i \in 1..Len(response.platform_list) :
          /\ has(response.platform_list[i], "end_service_status")
          /\ response.platform_list[i].end_service_status

\* C9: when every platform of a light-rail response reports
\* end_service_status, etas() returns the error "Not in Service" to a query
\* in en and the Chinese text of the same message to a query in tc.
C9_LrtEndOfService ==
    (eta.op = "MtrLrtEta" /\ all_platforms_ended)
        => is_error(IF entry.locale = "en" THEN "Not in Service"
                    ELSE "tc: fu wu shi jian yi guo")

\* both platforms of the stop were out of service and the query was in tc
C9_Witness ==
    /\ eta.op = "MtrLrtEta"
    /\ all_platforms_ended
    /\ Len(response.platform_list) = 2
    /\ entry.locale = "tc"
    /\ is_error("tc: fu wu shi jian yi guo")

ascending(times) == \A i, j \in 1..Len(times) : i < j => times[i] <= times[j]

\* the etas of a list of Eta.Time, those without an eta left out
etas_of(list) ==
    LET timed == SelectSeq(list, LAMBDA t : t.eta # None)
    IN  [k \in 1..Len(timed) |-> timed[k].eta[1]]

\* the minutes a light-rail train is away, as upstream words it
lrt_minutes(e) == IF isnumeric(e.time_en[1]) THEN int_of(e.time_en[1]) ELSE 0

\* upstream lists the arrivals in ascending order of time: the entries of
\* the queried stop and direction, the buses of the stop, the trains of the
\* direction, and for light rail the trains of each platform
upstream_ordered ==
    CASE company = "kmb" ->
            has(response, "data")
            /\ ascending(etas_of(SelectSeq(response.data,
                   LAMBDA e : e.seq = stop_seq(self_route) /\ e.dir = initial(entry.direction))))
      [] company = "ctb" ->
            has(response, "data")
            /\ ascending(etas_of(SelectSeq(response.data,
                   LAMBDA e : e.dir = initial(entry.direction))))
      [] company = "mtr_bus" ->
            has(response, "busStop")
            /\ \A i \in 1..Len(response.busStop) :
                  LET bus == response.busStop[i].bus
                  IN  ascending([k \in 1..Len(bus) |->
                          IF stop_type(self_route) = "ORIG"
                          THEN bus[k].departureTimeInSecond
                          ELSE bus[k].arrivalTimeInSecond])
      [] company = "mtr_train" ->
            has(response, "data")
            /\ LET station == response.data[<<linename(entry.no), entry.stop_id>>]
               IN  \A d \in DOMAIN station :
                      ascending([k \in 1..Len(station[d]) |-> station[d][k].time])
      [] company = "mtr_lrt" ->
            has(response, "platform_list")
            /\ \A i \in 1..Len(response.platform_list) :
                  LET trains == lrt_route_list(response.platform_list[i])
                  IN  ascending([k \in 1..Len(trains) |-> lrt_minutes(trains[k])])
      [] company = "nlb" ->
            has(response, "estimatedArrivals")
            /\ ascending([k \in 1..Len(response.estimatedArrivals) |->
                             response.estimatedArrivals[k].estimatedArrivalTime])

\* C11 as stated: when upstream lists the arrivals in ascending order, the
\* times of every list etas() returns are in ascending (non-decreasing)
\* order of eta, whatever the provider, light-rail responses with the route
\* on several platforms included.
C11_Ascending ==
    (called /\ is_times /\ upstream_ordered) => ascending(etas_of(eta.out.etas.list))

----------------------------------------------------------------------------
(* refresher.py: a refresh round *)

\* bookmarks of a bookmark group at most
MaxBookmarks == 1

\* renderer.EtaFormat
EtaFormat == {"mixed", "absolute", "relative"}

\* the layouts of a renderer
Layouts == {"3x1"}

\* what the e-paper side of a round does: it works, or epdcon.get or
\* display_images raises
DisplayOutcomes == {"ok", "OSError", "RuntimeError", "ModuleNotFoundError", "Exception"}

\* the bookmarks of a group: RouteQuery rows of the provider
Bookmark(c) == [q : Queries(c), stop_id : StopIds]

Bookmarks(c) == UNION {[1..n -> Bookmark(c)] : n \in 0..MaxBookmarks}

\* database.RefreshLog as _write_log builds it; error_message is None
\* when the keyword is absent
RefreshLog(eta_format, layout, is_partial, error_message) ==
    [eta_format |-> eta_format, layout |-> layout, is_partial |-> is_partial,
     error_message |-> error_message, created_at |-> now]

\* purge_logs counts the rows against this number
LogLimit == 120

\* the rows receive_after_flush deletes
PurgeSize == 60

\* purge_logs, the before_insert listener of RefreshLog: whether it
\* registers receive_after_flush for the flush of the insert
purge_logs(table) == ~(Len(table) < LogLimit)

\* the rows of the table that come before row i in
\* order_by(RefreshLog.created_at), rows of one created_at in their order of
\* insertion
rows_before(table, i) ==
    {j \in 1..Len(table) :
        \/ table[j].created_at < table[i].created_at
        \/ table[j].created_at = table[i].created_at /\ j < i}

\* the listener keeps every row and no row is deleted
receive_after_flush_keeps(table) == table

\* receive_after_flush: the first PurgeSize rows by created_at of the
\* flushed table are deleted
receive_after_flush(table) ==
    LET numbered == [i \in 1..Len(table) |-> <<i, table[i]>>]
        kept == SelectSeq(numbered,
                    LAMBDA p : Cardinality(rows_before(table, p[1])) >= PurgeSize)
    IN  [k \in 1..Len(kept) |-> kept[k][2]]

\* _write_log: the row is added and committed.  The flush of the commit
\* inserts the row and runs the listeners; the commit flushes again what
\* receive_after_flush deleted
write_log(table, eta_format, layout, is_partial, error_message) ==
    LET flushed == Append(table, RefreshLog(eta_format, layout, is_partial,
                                            error_message))
    IN  IF purge_logs(table) THEN receive_after_flush(flushed) ELSE flushed

\* the list comprehension of refresh: create_eta_processor(query).etas()
\* for one bookmark after the other, each on a new Transport; the first
\* exception ends it.  api_ok: the live ETA request of the processors works
RECURSIVE bookmark_etas(_, _, _, _, _, _, _)
bookmark_etas(c, bookmarks, st, t, up, api_ok, k) ==
    IF k > Len(bookmarks) THEN [st EXCEPT !.exc = "none"]
    ELSE LET bm == bookmarks[k]
             r == CHOOSE x \in {Route_init(c, NoRoutes, st.rfile, st.sfiles, t, up,
                                           bm.q[1], bm.q[2], bm.q[3], bm.stop_id)} : TRUE
             after == [mem |-> r.mem, rfile |-> r.rfile, sfiles |-> r.sfiles, exc |-> r.exc]
         IN  IF r.exc # "none" THEN after
             ELSE IF ~api_ok THEN [after EXCEPT !.exc = "ClientError"]
             ELSE bookmark_etas(c, bookmarks, after, t, up, api_ok, k + 1)

\* the images a renderer draws for the etas of the bookmarks
draw(eta_format, layout, bookmarks) ==
    [eta_format |-> eta_format, layout |-> layout, etas |-> Len(bookmarks)]

\* what a round did: result is "True", "False" or "raised"
round_record(result, step, exc) ==
    [op |-> "refresh", result |-> result, step |-> step, exc |-> exc]

\* refresher.refresh.  The format of a schedule is an EtaFormat, so the
\* test for an invalid format never succeeds.
refresh ==
    /\ calls < MaxCalls
    /\ calls' = calls + 1
    /\ UNCHANGED <<company, now, last, entry, response, eta, race_vars, nlb_vars, app_vars>>
    /\ \E eta_format \in EtaFormat, layout \in Layouts, is_partial \in BOOLEAN,
          renderer_found \in BOOLEAN :
        IF ~renderer_found
        THEN /\ logs' = write_log(logs, eta_format, layout, is_partial,
                                  Some("ModuleNotFoundError"))
             /\ round' = round_record("False", "renderer", "ModuleNotFoundError")
             /\ UNCHANGED <<routes_file, stops_files, routes_mem, screens>>
        ELSE \E bookmarks \in Bookmarks(company), up \in Upstreams(company),
                api_ok \in BOOLEAN :
             \E r \in {bookmark_etas(company, bookmarks,
                          [mem |-> routes_mem, rfile |-> routes_file,
                           sfiles |-> stops_files, exc |-> "none"],
                          now, up, api_ok, 1)} :
                /\ routes_mem' = r.mem
                /\ routes_file' = r.rfile
                /\ stops_files' = r.sfiles
                /\ IF r.exc # "none"
                   THEN /\ round' = round_record("raised", "etas", r.exc)
                        /\ UNCHANGED <<logs, screens>>
                   ELSE \E is_dry_run \in BOOLEAN, display \in DisplayOutcomes :
                        LET partial == IF screens = None THEN FALSE ELSE is_partial
                        IN  IF ~is_dry_run /\ display # "ok"
                            THEN /\ logs' = write_log(logs, eta_format, layout, partial,
                                                      Some(display))
                                 /\ round' = round_record("False", "display", display)
                                 /\ UNCHANGED screens
                            ELSE /\ logs' = write_log(logs, eta_format, layout, partial, None)
                                 /\ round' = round_record("True", "none", "none")
                                 /\ screens' = draw(eta_format, layout, bookmarks)

NextRefresh ==
    \/ refresh

SpecRefresh == Init /\ [][NextRefresh]_vars

\* C12 as stated: a refresh round that fails while the ETAs of the
\* bookmarks are computed (the upstream request fails, or RouteNotExist,
\* StopNotExist or ServiceTypeNotExist is raised) propagates the failure
\* and writes a RefreshLog row that carries an error message.
C12_FailedRoundLogged ==
    [][(refresh /\ round'.step = "etas")
         => /\ round'.result = "raised"
            /\ Len(logs') = Len(logs) + 1
            /\ logs'[Len(logs')].error_message # None]_vars

----------------------------------------------------------------------------
(* Memoization of the route list *)

\* the stop file a call for the query q works on
file_of(q) == stops_files[stop_list_fname(q[1], q[2], q[3])]

\* C13 (every call of the cache specification adds one to calls): once the
\* Transport holds the route list in memory, a call made
\* while that record is not outdated serves the route list from memory,
\* loading no file and fetching nothing; a stop_list call on a stop file
\* that is there and not outdated loads that file again, fetches nothing
\* and returns the file's stops.
C13_RoutesMemoizedStopsReread ==
    [][/\ (calls' = calls + 1 /\ routes_mem.exists /\ ~is_outdated(routes_mem, now))
          => /\ last'.n_route_read = 0
             /\ last'.n_route_fetch = 0
             /\ routes_mem' = routes_mem
             /\ last'.op = "route_list" => last'.routes = routes_mem.data
       /\ \A q \in Queries(company) :
            (/\ calls' = calls + 1
             /\ last'.op = "stop_list"
             /\ <<last'.no, last'.direction, last'.service_type>> = q
             /\ last'.exc = "none"
             /\ ~is_outdated(file_of(q), now))
            => /\ last'.n_stop_read >= 1
               /\ last'.n_stop_fetch = 0
               /\ last'.stops = file_of(q).data]_vars

\* a stop_list call was served the route list from memory and loaded the
\* stop file the same call had written just before
C13_Witness ==
    /\ last.op = "stop_list"
    /\ last.exc = "none"
    /\ last.again # "no"
    /\ last.n_route_read = 0
    /\ last.n_route_fetch = 0
    /\ last.n_stop_read >= 1
    /\ last.n_stop_fetch = 0

----------------------------------------------------------------------------
(* Route.id *)

\* the bounds of the Route's route number and direction that carry the
\* query's service type
bounds_of_type(route) ==
    SelectSeq(route.routes[route.entry.no][route.entry.direction],
              LAMBDA service : service.service_type = route.entry.service_type)

\* C14 as stated: Route.id(), which the NLB processor calls first, returns
\* the route_id of the bound that carries the query's service_type when
\* the route number and direction have such a bound, and raises
\* ServiceTypeNotExist when they have none.
C14_RouteIdOfBound ==
    (called /\ eta.op = "NlbEta")
    => LET id == Route_id(self_route)
           mine == bounds_of_type(self_route)
       IN  IF mine # << >>
           THEN id.exc = "none" /\ id.value = Some(mine[1].route_id)
           ELSE id.exc = "ServiceTypeNotExist"

----------------------------------------------------------------------------
(* transport.py: the heavy-rail catalog *)

\* row[1].partition("-") of a heavy-rail direction column, as <<head, tail>>
partition(code) ==
    CASE code = "B-UT" -> <<"B", "UT">>
      [] code = "B-DT" -> <<"B", "DT">>
      [] OTHER         -> <<code, "">>

\* row[0] += f"-{rt_type}": the synthetic line of a branch
branch_route(line, rt) == IF line = "R1" /\ rt = "B" THEN "R1-B" ELSE line

\* the bound MTRTrain._fetch_route_list appends for an origin row
TrainBound(no, d, row) ==
    [route_id |-> <<no, d, "default">>, service_type |-> "default",
     orig |-> stop_of(row), dest |-> << >>]

\* the loop of MTRTrain._fetch_route_list over the rows of the CSV file: a
\* row of sequence 1 opens a bound, every other row becomes the destination
\* of the first bound of its direction (IndexError when there is none)
RECURSIVE MTRTrain_route_rows(_, _, _)
MTRTrain_route_rows(rows, k, route_list_) ==
    IF k > Len(rows) THEN [exc |-> "none", routes |-> route_list_]
    ELSE LET row == rows[k]
             p == partition(row.code)
             no == IF p[2] # "" THEN branch_route(row.route, p[1]) ELSE row.route
             d == bound_map("mtr_train", IF p[2] # "" THEN p[2] ELSE p[1])
             cur == IF no \in DOMAIN route_list_ THEN route_list_
                    ELSE route_list_ @@ (no :> [inbound |-> << >>, outbound |-> << >>])
         IN  IF row.seq = 1
             THEN MTRTrain_route_rows(rows, k + 1,
                      [cur EXCEPT ![no][d] = Append(@, TrainBound(no, d, row))])
             ELSE IF cur[no][d] = << >>
             THEN [exc |-> "IndexError", routes |-> cur]
             ELSE MTRTrain_route_rows(rows, k + 1,
                      [cur EXCEPT ![no][d][1].dest = stop_of(row)])

\* MTRTrain._fetch_route_list
MTRTrain_fetch_route_list(rows) == MTRTrain_route_rows(rows, 1, EmptyCatalog)

\* the rows of one bound in what upstream serves: the rows of that line or
\* branch and of that direction
bound_rows(world, no, d) ==
    SelectSeq(world, LAMBDA r : r.route_id = <<no, d, "default">>)

\* every branch row of the world has its synthetic route, with a bound
\* under the direction its direction column maps to
branches_listed(world) ==
    LET rl == MTRTrain_fetch_route_list(world)
    IN  /\ rl.exc = "none"
        /\ \A i \in 1..Len(world) :
              partition(world[i].code)[2] # ""
              => LET no == branch_route(world[i].route, partition(world[i].code)[1])
                     d == bound_map("mtr_train", partition(world[i].code)[2])
                 IN  /\ no \in DOMAIN rl.routes
                     /\ rl.routes[no][d] # << >>
                     /\ no # world[i].route

\* C15 as stated: the heavy-rail route list holds, for the rows of line L
\* whose direction column is "B-D", a synthetic route "L-B" under the
\* direction mapped from D; and a stop list fetched for a heavy-rail route
\* and direction is exactly the stops of that one bound in what upstream
\* serves: the rows of that line or branch and of that direction, no others.
C15_OneBound ==
    company = "mtr_train"
    => /\ \A world \in Worlds(company) : branches_listed(world)
       /\ (last.op = "stop_list" /\ last.exc = "none" /\ last.n_stop_fetch = 1)
          => \E world \in Worlds(company) :
                last.up_stops = stops_of(bound_rows(world, last.no, last.direction))

----------------------------------------------------------------------------
(* Two callers of stop_list on the same stop file, each on its own
   Transport, interleaved step by step.  The file is seen as the text
   json.dump writes: a head block with last_update, one block per stop and
   an end block; the buffer of the file object is flushed block by block. *)

Callers == {1, 2}

\* the query both callers make
RaceQuery(c) == <<"R1", "outbound", NormalType(c)>>

\* json.dump of a stamped stop list
text_of(rec) ==
    <<[kind |-> "head", last_update |-> rec.last_update]>>
    \o [i \in 1..Len(rec.data) |-> [kind |-> "stop", stop |-> rec.data[i]]]
    \o <<[kind |-> "end"]>>

\* what a write leaves where nothing was written
Hole == [kind |-> "hole"]

\* json.load accepts the text: one head, stops, one end
is_json(text) ==
    /\ Len(text) >= 2
    /\ text[1].kind = "head"
    /\ text[Len(text)].kind = "end"
    /\ \A i \in 2..(Len(text) - 1) : text[i].kind = "stop"

\* json.load of a text it accepts
json_load(text) ==
    [exists |-> TRUE, last_update |-> text[1].last_update,
     data |-> [i \in 1..(Len(text) - 2) |-> text[i + 1].stop]]

\* no file / the file with this text
NoFile == [exists |-> FALSE, text |-> << >>]
File(text) == [exists |-> TRUE, text |-> text]

\* f.write of one block at a position of the file
write_at(text, pos, block) ==
    [i \in 1..(IF pos > Len(text) THEN pos ELSE Len(text)) |->
        IF i = pos THEN block
        ELSE IF i <= Len(text) THEN text[i]
        ELSE Hole]

\* a caller that has not called yet
Idle == [pc |-> "idle", exc |-> "none", text |-> << >>, pos |-> 0, stops |-> << >>]

\* one whole day more than the threshold after the stale file was written
RaceNow == TicksPerDay * (threshold + 1)

\* routes.json is fresh; the stop file is missing or stale
InitRace ==
    /\ company \in Company
    /\ now = RaceNow
    /\ routes_file = append_timestamp(LeftRoutes(company).data, now)
    /\ stops_files = [f \in FNames(company) |-> NoStops]
    /\ routes_mem = NoRoutes
    /\ calls = 0
    /\ last = NoCall
    /\ entry = NoEntry
    /\ response = EmptyResponse
    /\ eta = NoEta
    /\ NoRefresher
    /\ NoApp
    /\ NoNlb
    /\ disk \in {NoFile, File(text_of(LeftStops(company)))}
    /\ procs = [p \in Callers |-> Idle]
    /\ order = << >>

race_frame ==
    UNCHANGED <<company, now, routes_file, stops_files, routes_mem, calls, last,
                entry, response, eta, refresher_vars, nlb_vars, app_vars>>

\* stop_list up to the test of _is_outdated(fpath): the route list is
\* loaded from the fresh routes.json, the route is listed, and the stop
\* file is loaded for its last_update
check(p) ==
    /\ procs[p].pc = "idle"
    /\ race_frame
    /\ UNCHANGED <<disk, order>>
    /\ IF ~disk.exists
       THEN procs' = [procs EXCEPT ![p].pc = "fetch"]
       ELSE IF ~is_json(disk.text)
       THEN procs' = [procs EXCEPT ![p].pc = "raised", ![p].exc = "JSONDecodeError"]
       ELSE IF is_outdated(json_load(disk.text), now)
       THEN procs' = [procs EXCEPT ![p].pc = "fetch"]
       ELSE procs' = [procs EXCEPT ![p].pc = "read"]

\* stop_list, the else branch: the file is loaded again for its data
read(p) ==
    /\ procs[p].pc = "read"
    /\ race_frame
    /\ UNCHANGED <<disk, order>>
    /\ IF ~disk.exists
       THEN procs' = [procs EXCEPT ![p].pc = "raised", ![p].exc = "FileNotFoundError"]
       ELSE IF ~is_json(disk.text)
       THEN procs' = [procs EXCEPT ![p].pc = "raised", ![p].exc = "JSONDecodeError"]
       ELSE procs' = [procs EXCEPT ![p].pc = "returned",
                                   ![p].stops = json_load(disk.text).data]

\* asyncio.run(self._fetch_stop_list(...)) and _append_timestamp
fetch(p) ==
    /\ procs[p].pc = "fetch"
    /\ race_frame
    /\ UNCHANGED <<disk, order>>
    /\ \E stops_ok \in BOOLEAN, world \in Worlds(company) :
        LET q == RaceQuery(company)
            up == [routes_ok |-> TRUE, catalog |-> routes_file.data,
                   stops_ok |-> stops_ok, world |-> world]
            fetched == fetch_stop_list(company, routes_file.data, up, q[1], q[2], q[3])
        IN  IF fetched.exc # "none"
            THEN procs' = [procs EXCEPT ![p].pc = "raised", ![p].exc = fetched.exc]
            ELSE procs' = [procs EXCEPT ![p].pc = "open",
                                        ![p].stops = fetched.stops,
                                        ![p].text = text_of(append_timestamp(fetched.stops, now))]

\* _put_data_file: open(path, "w") creates the file or empties it
put_open(p) ==
    /\ procs[p].pc = "open"
    /\ race_frame
    /\ UNCHANGED order
    /\ disk' = File(<< >>)
    /\ procs' = [procs EXCEPT ![p].pc = "write", ![p].pos = 1]

\* _put_data_file: json.dump writes the next block at the caller's own
\* position in the file; after the last block the file is closed and
\* stop_list returns the stops it fetched
put_write(p) ==
    /\ procs[p].pc = "write"
    /\ race_frame
    /\ disk' = File(write_at(disk.text, procs[p].pos, procs[p].text[procs[p].pos]))
    /\ IF procs[p].pos = Len(procs[p].text)
       THEN /\ procs' = [procs EXCEPT ![p].pc = "written"]
            /\ order' = Append(order, p)
       ELSE /\ procs' = [procs EXCEPT ![p].pos = @ + 1]
            /\ UNCHANGED order

NextRace ==
    \/ \E p \in Callers : check(p)
    \/ \E p \in Callers : read(p)
    \/ \E p \in Callers : fetch(p)
    \/ \E p \in Callers : put_open(p)
    \/ \E p \in Callers : put_write(p)

SpecRace == InitRace /\ [][NextRace]_vars

\* both callers found the key missing or stale, fetched and wrote
both_written == \A p \in Callers : procs[p].pc = "written"

\* C16 as stated: when two callers read the same missing or stale key
\* concurrently, each makes its own fetch and its own overwrite, and after
\* both have completed the file holds one complete fresh record, equal to
\* what the caller that wrote last wrote.
C16_LastWriterWins ==
    both_written
    => /\ is_json(disk.text)
       /\ ~is_outdated(json_load(disk.text), now)
       /\ disk.text = procs[order[Len(order)]].text

----------------------------------------------------------------------------
(* is_arriving and is_scheduled of the entries *)

\* a light-rail train of the queried route and destination that has not
\* stopped running
lrt_mine(e) ==
    /\ e.route_no = entry.no
    /\ ~(has(e, "stop") /\ e.stop = 1)
    /\ lrt_dest(e, lrt_lang(entry.locale))
         = Some(name_of(destination(self_route), entry.locale))

RECURSIVE lrt_trains(_)
lrt_trains(platforms) ==
    IF platforms = << >> THEN << >>
    ELSE SelectSeq(lrt_route_list(Head(platforms)), lrt_mine) \o lrt_trains(Tail(platforms))

\* the first busStop entry of the queried stop in an MTR Bus response
bus_stop_at ==
    LET at == {i \in 1..Len(response.busStop) :
                  response.busStop[i].busStopId = entry.stop_id}
    IN  IF at = {} THEN << >>
        ELSE response.busStop[CHOOSE i \in at : \A j \in at : i <= j].bus

\* the upstream entries of the response that are about the query, in the
\* order of the response: the k-th Eta.Time of a returned list is made from
\* the k-th of them
reported ==
    CASE company = "kmb" ->
            SelectSeq(response.data,
                LAMBDA e : e.seq = stop_seq(self_route) /\ e.dir = initial(entry.direction))
      [] company = "ctb" ->
            SelectSeq(response.data, LAMBDA e : e.dir = initial(entry.direction))
      [] company = "mtr_bus" -> bus_stop_at
      [] company = "mtr_lrt" -> lrt_trains(response.platform_list)
      [] company = "mtr_train" ->
            response.data[<<linename(entry.no), entry.stop_id>>][train_direction(entry.direction)]
      [] company = "nlb" -> response.estimatedArrivals

\* the time text of an MTR Bus or light-rail entry that the processor looks at
time_text(e) ==
    IF company = "mtr_bus"
    THEN (IF stop_type(self_route) = "ORIG" THEN e.departureTimeText ELSE e.arrivalTimeText)
    ELSE lrt_time(e, lrt_lang(entry.locale))

\* the seconds to the arrival of an upstream entry, counted from the
\* response's own timestamp (from the local clock for NLB) and the
\* provider's threshold for them
seconds_to_go(e) ==
    CASE company \in {"kmb", "ctb"} -> e.eta[1] - response.generated_timestamp
      [] company = "mtr_train" -> e.time - response.curr_time
      [] company = "nlb" -> e.estimatedArrivalTime - now

arriving_under ==
    CASE company = "kmb" -> 30
      [] company = "ctb" -> 60
      [] company = "nlb" -> 60
      [] company = "mtr_train" -> 90

\* the claim's is_arriving of an upstream entry
soon(e) ==
    IF company \in {"mtr_bus", "mtr_lrt"} THEN ~any_digit(time_text(e))
    ELSE IF company = "ctb" /\ e.eta = None THEN FALSE
    ELSE seconds_to_go(e) < arriving_under

\* NLB answered with estimated arrivals
nlb_arrivals == company = "nlb" /\ has(response, "estimatedArrivals")
                /\ response.estimatedArrivals # << >>

timetabled(e) ==
    CASE company = "kmb" ->
            rmk(e, entry.locale) \in {"tc: yuan ding ban ci", "Scheduled Bus"}
      [] company = "mtr_bus" -> e.busLocation.longitude = 0
      [] company = "nlb" -> e.noGPS = "1"
      [] company = "ctb" -> e.eta = None
      [] company \in {"mtr_lrt", "mtr_train"} -> FALSE

----------------------------------------------------------------------------
(* transport.py: the NLB catalog *)

\* routes of an NLB route list response at most
MaxServices == 3

\* the terminus names of the model, as <<origin, destination>>: a route,
\* its way back, a variant with another destination, and a service that
\* shares no terminus with them
Termini == {<<"A", "B">>, <<"B", "A">>, <<"A", "C">>, <<"C", "D">>}

\* one route of the response with the termini route.php?action=list gives
\* for it (stops[0] and stops[-1])
NlbService(id, no, t) == [routeId |-> id, routeNo |-> no, orig |-> t[1], dest |-> t[2]]

\* the responses: up to MaxServices routes with ids of their own, in any
\* order
NlbRouteLists ==
    UNION {{l \in [1..n -> {NlbService(id, no, t) :
                               id \in 1..MaxServices, no \in {"R1", "R2"}, t \in Termini}] :
               \A i, j \in 1..n : i # j => l[i].routeId # l[j].routeId}
           : n \in 0..MaxServices}

\* sorted(routes, key=cmp_to_key(lambda a, b: int(a['routeId']) - int(b['routeId'])))
RECURSIVE sorted(_)
sorted(routes) ==
    IF routes = << >> THEN << >>
    ELSE LET i == CHOOSE i \in 1..Len(routes) :
                     \A j \in 1..Len(routes) : routes[i].routeId <= routes[j].routeId
         IN  <<routes[i]>> \o sorted([k \in 1..(Len(routes) - 1) |->
                                         IF k < i THEN routes[k] ELSE routes[k + 1]])

\* str() of a count
str(n) == <<"1", "2", "3", "4", "5">>[n]

\* lines 611-631: the direction and service type of a service.  all(len(b)
\* for b in route_list[no]) runs over the keys "outbound" and "inbound" and
\* is always true, so the parents are searched for every service: outbound
\* first, then inbound, for the first bound with the same origin or the
\* same destination name
NlbMatch(route_list_, route) ==
    LET parents == [k \in 1..(Len(route_list_.outbound) + Len(route_list_.inbound)) |->
                       IF k <= Len(route_list_.outbound)
                       THEN [bound |-> "outbound", r |-> route_list_.outbound[k]]
                       ELSE [bound |-> "inbound",
                             r |-> route_list_.inbound[k - Len(route_list_.outbound)]]]
        hits == {k \in 1..Len(parents) :
                    \/ parents[k].r.orig = route.orig
                    \/ parents[k].r.dest = route.dest}
    IN  IF hits = {}
        THEN [direction |-> IF Len(route_list_.outbound) > 0 THEN "inbound" ELSE "outbound",
              service_type |-> "1"]
        ELSE LET bound == parents[CHOOSE k \in hits : \A j \in hits : k <= j].bound
             IN  [direction |-> bound, service_type |-> str(Len(route_list_[bound]) + 1)]

\* the loop of NewLantaoBus._fetch_route_list over the sorted routes
RECURSIVE NlbBuild(_, _, _)
NlbBuild(routes, k, route_list_) ==
    IF k > Len(routes) THEN route_list_
    ELSE LET route == routes[k]
             no == route.routeNo
             cur == IF no \in DOMAIN route_list_ THEN route_list_
                    ELSE route_list_ @@ (no :> [outbound |-> << >>, inbound |-> << >>])
             m == NlbMatch(cur[no], route)
         IN  NlbBuild(routes, k + 1,
                 [cur EXCEPT ![no][m.direction] =
                     Append(@, [service_type |-> m.service_type, route_id |-> route.routeId,
                                orig |-> route.orig, dest |-> route.dest])])

\* NewLantaoBus._fetch_route_list
NewLantaoBus_fetch_route_list(routes) == NlbBuild(sorted(routes), 1, EmptyCatalog)

InitNlb ==
    /\ company = "nlb"
    /\ now = 0
    /\ routes_file = NoRoutes
    /\ stops_files = [f \in FNames(company) |-> NoStops]
    /\ routes_mem = NoRoutes
    /\ calls = 0
    /\ last = NoCall
    /\ entry = NoEntry
    /\ response = EmptyResponse
    /\ eta = NoEta
    /\ NoRefresher
    /\ NoApp
    /\ NoRace
    /\ nlb_routes \in NlbRouteLists
    /\ built = [op |-> "none"]

\* the route list is fetched
fetch_route_list ==
    /\ built.op = "none"
    /\ built' = [op |-> "fetch", routes |-> NewLantaoBus_fetch_route_list(nlb_routes)]
    /\ UNCHANGED <<company, now, routes_file, stops_files, routes_mem, calls, last,
                   entry, response, eta, refresher_vars, race_vars, nlb_routes,
                   app_vars>>

NextNlb == fetch_route_list

SpecNlb == InitNlb /\ [][NextNlb]_vars

\* the service types of the bounds of a direction
types_of(bounds) == [k \in 1..Len(bounds) |-> bounds[k].service_type]

\* C19 as stated: in the NLB route list the service of a route number with
\* the lowest routeId is the outbound service of service_type "1", and
\* within every route number and direction the service_type values are
\* pairwise distinct.
C19_DistinctServiceTypes ==
    built.op = "fetch"
    => \A no \in DOMAIN built.routes :
          /\ built.routes[no].outbound # << >>
          /\ built.routes[no].outbound[1].service_type = "1"
          /\ \A i \in 1..Len(nlb_routes) :
                nlb_routes[i].routeNo = no
                => built.routes[no].outbound[1].route_id <= nlb_routes[i].routeId
          /\ \A d \in Direction :
                \A i, j \in 1..Len(built.routes[no][d]) :
                    i # j => types_of(built.routes[no][d])[i] # types_of(built.routes[no][d])[j]

----------------------------------------------------------------------------
(* Route.origin, Route.destination, Route.stop_seq *)

\* the Route the latest Route_call constructed
last_route ==
    Route([transport |-> company, no |-> last.no, direction |-> last.direction,
           service_type |-> last.service_type, stop_id |-> last.stop_id, locale |-> "en"],
          last.stops, last.routes)

\* the sequence numbers of a resolved stop list
seqs(stops) == {stops[i].seq : i \in 1..Len(stops)}

\* a Route was constructed from a stop list that names a stop twice
circular_resolved ==
    /\ last.op = "Route"
    /\ last.exc = "none"
    /\ \E i, j \in 1..Len(last.stops) : i # j /\ last.stops[i].id = last.stops[j].id

\* C20 as stated: for every Route, whatever its resolved stop list (a list
\* that names a stop id twice included), origin() is the stop of the lowest
\* sequence number, destination() the stop of the highest, and stop_seq()
\* the sequence number of a stop of the list with the queried id.
C20_Termini ==
    (last.op = "Route" /\ last.exc = "none")
    => /\ \A n \in seqs(last.stops) : origin(last_route).seq <= n
       /\ \A n \in seqs(last.stops) : destination(last_route).seq >= n
       /\ \E i \in 1..Len(last.stops) :
             /\ last.stops[i].id = last.stop_id
             /\ last.stops[i].seq = stop_seq(last_route)

\* C26 as stated: while one caller is overwriting a cache record, a
\* concurrent reader of the same key never fails and never obtains corrupt
\* data: no caller ends in a failure to load the file, and a caller that
\* returns what it read returns the complete old record or the complete
\* record another caller wrote, never an empty or partially written file.
C26_ReaderSeesWholeRecord ==
    \A p \in Callers :
        /\ procs[p].exc \notin {"JSONDecodeError", "FileNotFoundError"}
        /\ procs[p].pc = "returned"
             => \/ procs[p].stops = LeftStops(company).data
                \/ \E q \in Callers \ {p} : procs[p].stops = procs[q].stops

----------------------------------------------------------------------------
(* Calls of the cache that raise *)

\* C27 (every call of the cache specification adds one to calls): a
\* route_list or stop_list call that raises (RouteNotExist,
\* ServiceTypeNotExist, RouteError or an upstream fetch failure) leaves the
\* on-disk record of the key it was resolving unchanged, data and
\* last_update alike, and creates no record for a key that had none, so
\* that a key that was missing or outdated still is and the next read
\* attempts the fetch again.
C27_RaisingCallKeepsRecord ==
    [][(calls' = calls + 1 /\ last'.op \in {"route_list", "stop_list"}
            /\ last'.exc # "none")
         => LET fname == stop_list_fname(last'.no, last'.direction, last'.service_type)
            IN  /\ last'.exc \in {"RouteNotExist", "ServiceTypeNotExist",
                                  "RouteError", "ClientError"}
                /\ last'.op = "route_list" => routes_file' = routes_file
                /\ last'.route_failed => routes_file' = routes_file
                /\ last'.op = "stop_list"
                     => /\ stops_files'[fname] = stops_files[fname]
                        /\ last'.n_stop_fetch = 1
                             => is_outdated(stops_files'[fname], now')]_vars

\* a stop_list call found its stop file outdated, the fetch failed, and the
\* file is there as it was
C27_Witness ==
    /\ last.op = "stop_list"
    /\ last.stop_failed
    /\ last.exc = "ClientError"
    /\ last.pre_stops.exists
    /\ stops_files[stop_list_fname(last.no, last.direction, last.service_type)].exists

----------------------------------------------------------------------------
(* refresher.py, step by step: the threads that drive the e-paper display *)
(* (scheduler jobs and requests running refresh, requests running         *)
(* clear_screen) over the one controller lock, the panel and the screen   *)
(* dump directory.                                                        *)

\* the threads
Threads == {1, 2}

\* calls of refresh and of the clear-screen action at most
MaxRounds == 3

\* the images a renderer has drawn for a round
Images == {draw(f, "3x1", << >>) : f \in {"mixed", "absolute"}}

\* what epdcon.get finds for the configured brand and model: no module, a
\* Controller that is Partialable (epd3in7, epd1in54) or one that is not
\* (epd4in2b_V2)
Controllers == {"missing", "partialable", "plain"}

\* refresh passes wait_if_locked as False
wait_if_locked == FALSE

\* a thread that runs none of the two functions
NoThread ==
    [pc |-> "idle", op |-> "none", is_partial |-> FALSE, is_dry_run |-> FALSE,
     images |-> << >>, old_screens |-> << >>, controller |-> "none",
     exc |-> "none"]

\* the thread is at a step; the thread moves to a step
at(t, step) == threads[t].pc = step

goto(t, step) == [threads EXCEPT ![t].pc = step]

\* the program starts with an empty screen dump directory and a panel that
\* shows nothing
InitDisplay ==
    /\ company = "kmb"
    /\ now = 0
    /\ routes_file = NoRoutes
    /\ stops_files = [f \in FNames(company) |-> NoStops]
    /\ routes_mem = NoRoutes
    /\ calls = 0
    /\ last = NoCall
    /\ entry = NoEntry
    /\ response = EmptyResponse
    /\ eta = NoEta
    /\ NoRefresher
    /\ NoRace
    /\ NoNlb
    /\ ctrl_mutex = 0
    /\ threads = [t \in Threads |-> NoThread]
    /\ panel = << >>
    /\ schedules = << >>
    /\ jobs = << >>
    /\ NoTracker

display_frame ==
    UNCHANGED <<company, now, routes_file, stops_files, routes_mem, last, entry,
                response, eta, round, race_vars, nlb_vars, schedules, jobs,
                tracker_vars>>

\* refresh up to the images of the round (lines 98-113 of refresher.py), on a thread
refresh_begin(t) ==
    /\ threads[t].pc \in {"idle", "returned"}
    /\ calls < MaxRounds
    /\ calls' = calls + 1
    /\ \E is_partial \in BOOLEAN, is_dry_run \in BOOLEAN, images \in Images :
         threads' = [threads EXCEPT ![t] =
                        [NoThread EXCEPT !.pc = "load", !.op = "refresh",
                                         !.is_partial = is_partial,
                                         !.is_dry_run = is_dry_run,
                                         !.images = images]]
    /\ UNCHANGED <<logs, screens, ctrl_mutex, panel>>
    /\ display_frame

\* refresh, lines 116-121: load_images of the screen dump directory, the
\* refresh is full when there is none, and epdcon.get unless dry-run
refresh_load(t) ==
    /\ at(t, "load")
    /\ LET me == threads[t]
           is_partial == IF screens = << >> THEN FALSE ELSE me.is_partial
           loaded == [me EXCEPT !.old_screens = screens, !.is_partial = is_partial]
       IN  IF me.is_dry_run
           THEN threads' = [threads EXCEPT ![t] = [loaded EXCEPT !.pc = "log"]]
           ELSE \E found \in Controllers :
                  threads' = [threads EXCEPT ![t] =
                     IF found = "missing"
                     THEN [loaded EXCEPT !.pc = "failed", !.exc = "ModuleNotFoundError"]
                     ELSE [loaded EXCEPT !.pc = "locked", !.controller = found]]
    /\ UNCHANGED <<calls, logs, screens, ctrl_mutex, panel>>
    /\ display_frame

\* display_images, line 170: the test of _ctrl_mutex.locked()
display_images_locked(t) ==
    /\ at(t, "locked")
    /\ threads' = [threads EXCEPT ![t] =
                      IF ctrl_mutex # 0 /\ ~wait_if_locked
                      THEN [@ EXCEPT !.pc = "failed", !.exc = "RuntimeError"]
                      ELSE [@ EXCEPT !.pc = "acquire"]]
    /\ UNCHANGED <<calls, logs, screens, ctrl_mutex, panel>>
    /\ display_frame

\* Lock.acquire goes on when no thread holds the lock
acquire_any(mutex) == TRUE

acquirable(mutex) == mutex = 0

\* `with _ctrl_mutex:` of display_images (line 173) and of clear_screen
\* (line 188): the thread blocks until it has the lock
mutex_acquire(t) ==
    /\ at(t, "acquire")
    /\ acquirable(ctrl_mutex)
    /\ ctrl_mutex' = t
    /\ threads' = goto(t, "initialize")
    /\ UNCHANGED <<calls, logs, screens, panel>>
    /\ display_frame

\* controller.initialize(): it raises when the panel does not come up
controller_initialize(t) ==
    /\ at(t, "initialize")
    /\ \E ok \in BOOLEAN :
         threads' = [threads EXCEPT ![t] =
                        IF ok
                        THEN [@ EXCEPT !.pc = IF threads[t].op = "refresh" THEN "display"
                                              ELSE "clear"]
                        ELSE [@ EXCEPT !.pc = "close", !.exc = "RuntimeError"]]
    /\ UNCHANGED <<calls, logs, screens, ctrl_mutex, panel>>
    /\ display_frame

\* the refresh is sent as a partial one (line 176)
sends_partial(me) == me.is_partial /\ me.controller = "partialable"

\* controller.display_partial(old_images, images) or controller.display(images)
controller_display(t) ==
    /\ at(t, "display")
    /\ \E ok \in BOOLEAN :
         IF ok
         THEN /\ panel' = threads[t].images
              /\ threads' = goto(t, "close")
         ELSE /\ UNCHANGED panel
              /\ threads' = [threads EXCEPT ![t].pc = "close", ![t].exc = "OSError"]
    /\ UNCHANGED <<calls, logs, screens, ctrl_mutex>>
    /\ display_frame

\* controller.clear()
controller_clear(t) ==
    /\ at(t, "clear")
    /\ \E ok \in BOOLEAN :
         IF ok
         THEN /\ panel' = << >>
              /\ threads' = goto(t, "close")
         ELSE /\ UNCHANGED panel
              /\ threads' = [threads EXCEPT ![t].pc = "close", ![t].exc = "OSError"]
    /\ UNCHANGED <<calls, logs, screens, ctrl_mutex>>
    /\ display_frame

\* the finally clause, controller.close(), and the end of the with block,
\* which releases the lock whether or not anything was raised.  refresh
\* goes on to its log; clear_screen goes on to the screen dump directory or
\* raises to its caller
controller_close(t) ==
    /\ at(t, "close")
    /\ ctrl_mutex' = 0
    /\ \E ok \in BOOLEAN :
         LET exc == IF ok THEN threads[t].exc ELSE "OSError"
         IN  threads' = [threads EXCEPT ![t].exc = exc,
                            ![t].pc = IF threads[t].op = "refresh"
                                      THEN IF exc = "none" THEN "log" ELSE "failed"
                                      ELSE IF exc = "none" THEN "unlink" ELSE "returned"]
    /\ UNCHANGED <<calls, logs, screens, panel>>
    /\ display_frame

\* refresh, lines 123-138: the except clauses write the log of the failed
\* round and return False
refresh_failed(t) ==
    /\ at(t, "failed")
    /\ LET me == threads[t]
       IN  logs' = write_log(logs, me.images.eta_format, me.images.layout,
                             me.is_partial, Some(me.exc))
    /\ threads' = goto(t, "returned")
    /\ UNCHANGED <<calls, screens, ctrl_mutex, panel>>
    /\ display_frame

\* refresh, lines 140-143: the log of the round, and the images are saved
\* to the screen dump directory
refresh_save(t) ==
    /\ at(t, "log")
    /\ LET me == threads[t]
       IN  /\ logs' = write_log(logs, me.images.eta_format, me.images.layout,
                                me.is_partial, None)
           /\ screens' = me.images
    /\ threads' = goto(t, "returned")
    /\ UNCHANGED <<calls, ctrl_mutex, panel>>
    /\ display_frame

\* control.do_action("clear-screen"): nothing is done on a dry run,
\* clear_screen is called otherwise
clear_screen_begin(t) ==
    /\ threads[t].pc \in {"idle", "returned"}
    /\ calls < MaxRounds
    /\ calls' = calls + 1
    /\ \E dry_run \in BOOLEAN :
         threads' = [threads EXCEPT ![t] =
                        [NoThread EXCEPT !.op = "clear_screen", !.is_dry_run = dry_run,
                                         !.controller = "partialable",
                                         !.pc = IF dry_run THEN "returned"
                                                ELSE "acquire"]]
    /\ UNCHANGED <<logs, screens, ctrl_mutex, panel>>
    /\ display_frame

\* clear_screen, lines 195-196: every file of the screen dump directory is
\* unlinked
clear_screen_unlink(t) ==
    /\ at(t, "unlink")
    /\ screens' = << >>
    /\ threads' = goto(t, "returned")
    /\ UNCHANGED <<calls, logs, ctrl_mutex, panel>>
    /\ display_frame

NextDisplay ==
    \E t \in Threads :
        \/ refresh_begin(t)
        \/ refresh_load(t)
        \/ display_images_locked(t)
        \/ mutex_acquire(t)
        \/ controller_initialize(t)
        \/ controller_display(t)
        \/ controller_clear(t)
        \/ controller_close(t)
        \/ refresh_failed(t)
        \/ refresh_save(t)
        \/ clear_screen_begin(t)
        \/ clear_screen_unlink(t)

SpecDisplay == InitDisplay /\ [][NextDisplay]_vars

\* the threads that are executing a controller operation
in_controller == {t \in Threads : threads[t].pc \in {"initialize", "display", "clear", "close"}}

\* C21: only one refresh drives the display at a time: of the threads that
\* call display_images and clear_screen at most one is executing controller
\* operations (initialize, display, display_partial, clear, close), that
\* thread holds the lock, and the lock is released on every path: a thread
\* that is not in the with block, having returned or raised, does not hold
\* it.
C21_OneDriver ==
    /\ Cardinality(in_controller) <= 1
    /\ \A t \in Threads : t \in in_controller <=> ctrl_mutex = t

\* a controller operation of one thread raised, the thread is out of
\* display_images, and the other thread drives the display
C21_Witness ==
    \E t \in Threads, u \in Threads :
        /\ threads[t].pc \in {"failed", "returned"}
        /\ threads[t].exc \in {"OSError"}
        /\ u \in in_controller
        /\ ctrl_mutex = u

\* C23 as stated: display_images called with wait_if_locked false never
\* waits for another refresh to finish: under every interleaving with other
\* callers of display_images or clear_screen, a call that found the lock
\* held has raised RuntimeError without any controller operation, and a
\* call that goes on to the with block finds the lock free and proceeds
\* immediately.
C23_NeverWaits ==
    \A t \in Threads :
        (threads[t].op = "refresh" /\ ~wait_if_locked /\ at(t, "acquire"))
            => ctrl_mutex = 0

\* no thread is inside refresh or clear_screen
quiet_display == \A t \in Threads : threads[t].pc \in {"idle", "returned"}

\* C30 as stated: after any sequence of refresh rounds (normal, dry-run,
\* failed) and clear-screen actions, whenever refresh() sends a partial
\* refresh to the display, the old images it passes are the images most
\* recently shown on the panel: between the calls the screen dump directory
\* equals what the panel displays, and it is empty whenever the panel has
\* been cleared or nothing was displayed yet.
C30_OldImagesOnPanel ==
    /\ \A t \in Threads :
          (at(t, "display") /\ sends_partial(threads[t]))
              => threads[t].old_screens = panel
    /\ quiet_display => screens = panel

----------------------------------------------------------------------------
(* database.py: the refresh_logs table under _write_log *)

\* inserts of a run at most
MaxInserts == 3

\* the table as earlier runs left it: n rows, one per tick of the clock
LeftLogs(n) ==
    [k \in 1..n |-> [eta_format |-> "mixed", layout |-> "3x1", is_partial |-> FALSE,
                     error_message |-> << >>, created_at |-> k]]

\* the program starts on an empty table, or on a table that earlier runs
\* filled up to the limit or nearly so
InitLogs ==
    /\ company = "kmb"
    /\ routes_file = NoRoutes
    /\ stops_files = [f \in FNames(company) |-> NoStops]
    /\ routes_mem = NoRoutes
    /\ calls = 0
    /\ last = NoCall
    /\ entry = NoEntry
    /\ response = EmptyResponse
    /\ eta = NoEta
    /\ NoRace
    /\ NoNlb
    /\ NoApp
    /\ screens = << >>
    /\ round = NoRound
    /\ \E n \in {0, LogLimit - 2, LogLimit - 1, LogLimit} :
         /\ logs = LeftLogs(n)
         /\ now = n + 1

\* _write_log(**kwargs) of a round, at a later time than the rows before it
insert_log ==
    /\ calls < MaxInserts
    /\ calls' = calls + 1
    /\ now' = now + 1
    /\ \E is_partial \in BOOLEAN, error_message \in {<< >>, <<"RuntimeError">>} :
         logs' = write_log(logs, "mixed", "3x1", is_partial, error_message)
    /\ UNCHANGED <<company, routes_file, stops_files, routes_mem, last, entry,
                   response, eta, screens, round, race_vars, nlb_vars, app_vars>>

NextLogs == insert_log

SpecLogs == InitLogs /\ [][NextLogs]_vars

\* the created_at of the rows of a table
stamps(table) == {table[k].created_at : k \in 1..Len(table)}

\* C22: the number of stored refresh logs is kept within the limit of 120:
\* after every committed insert the table holds no more than 120 rows, and
\* an insert that finds 120 or more rows purges 60 rows, each of them older
\* by created_at than every row that stays, the new row being stored.
C22_LogsWithinLimit ==
    [][calls' = calls + 1 =>
         /\ Len(logs') <= LogLimit
         /\ now \in stamps(logs')
         /\ Len(logs) >= LogLimit =>
              /\ Cardinality(stamps(logs) \ stamps(logs')) = PurgeSize
              /\ Len(logs') = Len(logs) + 1 - PurgeSize
              /\ \A a \in stamps(logs) \ stamps(logs'), b \in stamps(logs') : a < b]_vars

\* an insert found the table at its limit, and another insert followed
C22_Witness ==
    /\ Len(logs) = LogLimit + 2 - PurgeSize
    /\ calls = 2
    /\ logs[1].created_at = PurgeSize + 1

----------------------------------------------------------------------------
(* database.py and the controllers: the schedules table and the jobs of   *)
(* the scheduler                                                          *)

\* schedules of the table at most
MaxSchedules == 3

ScheduleIds == 1..MaxSchedules

\* cron expressions of a schedule
Crons == {"* * * * *", "0 * * * *"}

\* no row of an id
NoSchedule == [exists |-> FALSE, enabled |-> FALSE, schedule |-> ""]

\* a row of the schedules table
Schedule(schedule, enabled) == [exists |-> TRUE, enabled |-> enabled, schedule |-> schedule]

\* the id the table gives a new row: one more than the largest id in use
next_id(table) ==
    IF \A i \in ScheduleIds : ~table[i].exists THEN 1
    ELSE 1 + CHOOSE i \in ScheduleIds :
                 table[i].exists /\ \A j \in ScheduleIds : table[j].exists => j <= i

\* Schedule.remove_job: the job of the id is removed; a JobLookupError is
\* logged
remove_job(jobstore, id) == [jobstore EXCEPT ![id] = << >>]

\* Schedule.add_job: a job of the id is replaced, the job runs on the cron
\* expression of the schedule
add_job(jobstore, id, target) == [remove_job(jobstore, id) EXCEPT ![id] = <<target.schedule>>]

\* add_refresh_job, the after_insert listener
add_refresh_job(jobstore, id, target) ==
    IF target.enabled THEN add_job(jobstore, id, target) ELSE jobstore

\* remove_refresh_job, the after_delete listener
remove_refresh_job(jobstore, id, target) ==
    IF target.enabled THEN remove_job(jobstore, id) ELSE jobstore

\* update_refresh_job_after, the after_update listener: committed holds
\* the value of enabled before it was set
update_refresh_job_after(jobstore, id, committed, target) ==
    LET removed == IF committed THEN remove_job(jobstore, id) ELSE jobstore
    IN  IF target.enabled THEN add_job(removed, id, target) ELSE removed

\* the program starts on an empty table and a scheduler without jobs
InitSchedules ==
    /\ company = "kmb"
    /\ now = 0
    /\ routes_file = NoRoutes
    /\ stops_files = [f \in FNames(company) |-> NoStops]
    /\ routes_mem = NoRoutes
    /\ calls = 0
    /\ last = NoCall
    /\ entry = NoEntry
    /\ response = EmptyResponse
    /\ eta = NoEta
    /\ NoRefresher
    /\ NoRace
    /\ NoNlb
    /\ NoDisplay
    /\ NoTracker
    /\ schedules = [i \in ScheduleIds |-> NoSchedule]
    /\ jobs = [i \in ScheduleIds |-> << >>]

schedules_frame ==
    UNCHANGED <<company, now, routes_file, stops_files, routes_mem, calls, last,
                entry, response, eta, refresher_vars, race_vars, nlb_vars,
                display_vars, tracker_vars>>

\* schedule.create: the row of the form is inserted
create ==
    /\ next_id(schedules) \in ScheduleIds
    /\ \E schedule \in Crons, enabled \in BOOLEAN :
         LET id == next_id(schedules)
             target == Schedule(schedule, enabled)
         IN  /\ schedules' = [schedules EXCEPT ![id] = target]
             /\ jobs' = add_refresh_job(jobs, id, target)
    /\ schedules_frame

\* schedule.import_: the row of an entry of the file is inserted with
\* enabled False
import_ ==
    /\ next_id(schedules) \in ScheduleIds
    /\ \E schedule \in Crons :
         LET id == next_id(schedules)
             target == Schedule(schedule, FALSE)
         IN  /\ schedules' = [schedules EXCEPT ![id] = target]
             /\ jobs' = add_refresh_job(jobs, id, target)
    /\ schedules_frame

\* schedule.edit: every field of the form is set on the row
edit ==
    /\ \E id \in ScheduleIds, schedule \in Crons, enabled \in BOOLEAN :
         /\ schedules[id].exists
         /\ LET target == Schedule(schedule, enabled)
            IN  /\ schedules' = [schedules EXCEPT ![id] = target]
                /\ jobs' = update_refresh_job_after(jobs, id, schedules[id].enabled,
                                                    target)
    /\ schedules_frame

\* schedule.toggle_status
toggle_status ==
    /\ \E id \in ScheduleIds :
         /\ schedules[id].exists
         /\ LET target == [schedules[id] EXCEPT !.enabled = ~@]
            IN  /\ schedules' = [schedules EXCEPT ![id] = target]
                /\ jobs' = update_refresh_job_after(jobs, id, schedules[id].enabled,
                                                    target)
    /\ schedules_frame

\* schedule.delete
delete ==
    /\ \E id \in ScheduleIds :
         /\ schedules[id].exists
         /\ schedules' = [schedules EXCEPT ![id] = NoSchedule]
         /\ jobs' = remove_refresh_job(jobs, id, schedules[id])
    /\ schedules_frame

\* configuration.index with another brand or model: Schedule.query.update
\* sets enabled of every row with one UPDATE statement, for which no
\* listener of a row is called
configuration_index ==
    /\ schedules' = [i \in ScheduleIds |-> [schedules[i] EXCEPT !.enabled = FALSE]]
    /\ UNCHANGED jobs
    /\ schedules_frame

\* create_app: the program starts on the table with a new scheduler, and
\* adds the job of every enabled schedule
create_app ==
    /\ jobs' = [i \in ScheduleIds |->
                  IF schedules[i].enabled THEN <<schedules[i].schedule>> ELSE << >>]
    /\ UNCHANGED schedules
    /\ schedules_frame

NextSchedules ==
    \/ create
    \/ import_
    \/ edit
    \/ toggle_status
    \/ delete
    \/ configuration_index
    \/ create_app

SpecSchedules == InitSchedules /\ [][NextSchedules]_vars

\* C24 as stated: after any sequence of schedule create, edit,
\* enable/disable toggle, delete and import operations and of configuration
\* saves that change the e-paper brand or model, the scheduler holds a
\* refresh job for a schedule id if and only if that schedule exists and is
\* enabled.
C24_JobsOfEnabled ==
    \A id \in ScheduleIds :
        jobs[id] # << >> <=> (schedules[id].exists /\ schedules[id].enabled)

----------------------------------------------------------------------------
(* refresher.py: the partial tracker of the scheduled refreshes *)

\* calls of the tracker at most
MaxRefreshes == 6

\* the schedules whose jobs run
TrackedIds == {1, 2}

\* partial_cycle of a schedule
PartialCycles == {-1, 0, 1, 2}

\* the tracker yields a partial refresh whenever the schedule is partial
partial_tracker_no_cycle(memo, id, schedule) ==
    [log |-> memo, partial |-> schedule.is_partial]

\* wrap of partial_tracker, on the log of the closure: the log after the
\* call and what the call returns
partial_tracker(memo, id, schedule) ==
    IF ~schedule.is_partial THEN [log |-> memo, partial |-> FALSE]
    ELSE IF schedule.partial_cycle <= 0 THEN [log |-> memo, partial |-> TRUE]
    ELSE IF memo.id # id THEN [log |-> [id |-> id, count |-> 1], partial |-> FALSE]
    ELSE IF memo.count + 1 > schedule.partial_cycle
         THEN [log |-> [memo EXCEPT !.count = 0], partial |-> FALSE]
         ELSE [log |-> [memo EXCEPT !.count = @ + 1], partial |-> TRUE]

\* the enabled schedules of the table, of any partial setting; the tracker
\* is new
InitTracker ==
    /\ company = "kmb"
    /\ now = 0
    /\ routes_file = NoRoutes
    /\ stops_files = [f \in FNames(company) |-> NoStops]
    /\ routes_mem = NoRoutes
    /\ calls = 0
    /\ last = NoCall
    /\ entry = NoEntry
    /\ response = EmptyResponse
    /\ eta = NoEta
    /\ NoRefresher
    /\ NoRace
    /\ NoNlb
    /\ NoDisplay
    /\ NoTracker
    /\ jobs = << >>
    /\ schedules \in [TrackedIds -> [is_partial : BOOLEAN, partial_cycle : PartialCycles]]

\* scheduled_refresh of a schedule, as far as `_is_partial(schedule)`
wrap ==
    /\ Len(yields) < MaxRefreshes
    /\ \E id \in TrackedIds :
       \E r \in {partial_tracker(log, id, schedules[id])} :
         /\ log' = r.log
         /\ yields' = Append(yields, [id |-> id, partial |-> r.partial,
                                      before |-> log, after |-> r.log])
    /\ UNCHANGED <<company, now, routes_file, stops_files, routes_mem, calls, last,
                   entry, response, eta, refresher_vars, race_vars, nlb_vars,
                   display_vars, schedules, jobs>>

NextTracker == wrap

SpecTracker == InitTracker /\ [][NextTracker]_vars

\* the tracker counts the refreshes of the schedule
cycled(id) == schedules[id].is_partial /\ schedules[id].partial_cycle >= 1

\* call k is the first refresh of its schedule: the first call of all, or
\* the call before it was of another schedule the tracker counts
first_refresh(k) ==
    \/ k = 1
    \/ yields[k - 1].id # yields[k].id /\ cycled(yields[k - 1].id)

\* calls k to k + n are refreshes of one schedule with nothing in between
same_schedule(k, n) == \A j \in k..(k + n) : yields[j].id = yields[k].id

----------------------------------------------------------------------------
(* Heavy rail: the direction of the catalog and of the live entries *)

\* the direction column (DT or UT) of the catalog rows that
\* MTRTrain._fetch_stop_list takes for a canonical direction
catalog_code(direction) ==
    CHOOSE code \in {"DT", "UT"} : bound_map("mtr_train", code) = direction

\* C28 as stated: for heavy rail the catalog and the ETA processor agree on
\* direction: for a query of canonical direction d, the upstream direction
\* whose catalog rows (DT or UT) form the stop list is the upstream
\* direction (DOWN or UP respectively) whose live entries etas() reads, so
\* that etas() reports no data exactly when the response has no entries of
\* that direction for the station.
C28_SameDirection ==
    (company = "mtr_train" /\ called /\ has(response, "status") /\ response.status = 1)
        => LET upstream == IF catalog_code(entry.direction) = "DT" THEN "DOWN" ELSE "UP"
               station == response.data[<<linename(entry.no), entry.stop_id>>]
           IN  /\ train_direction(entry.direction) = upstream
               /\ is_error(em("empty", entry.locale)) <=> ~has(station, upstream)

\* C29 as stated: a UnifiedEta returned by etas() never carries an empty
\* TimeEntry list: when the upstream response holds no entry matching the
\* query's stop and direction, the payload is an ErrorPayload ("No Data")
\* rather than an empty list.
C29_NoEmptyList ==
    (called /\ is_times) => Len(eta.out.etas.list) > 0

====
